---------------------------- MODULE Spec2Model ----------------------------
(***************************************************************************)
(* The speech server of src/sever.py (start_speech, stop_speech, the       *)
(* SpeechSession and its run_speech worker, the encoder callback) on top   *)
(* of the streaming player of src/RealtimeMp3Player.py (start, write,      *)
(* play_audio, stop, force_stop).                                          *)
(*                                                                         *)
(* Threads of the program and their model:                                 *)
(*   - the event loop, which runs the async handlers start_speech and      *)
(*     stop_speech one at a time (h_pc);                                   *)
(*   - one run_speech worker thread per session (w_pc[s]);                 *)
(*   - one encoder callback thread per session, which delivers on_data,    *)
(*     on_complete and on_error (cb_pc[s]);                                *)
(*   - one play_audio thread per player (d_pc[e]).                         *)
(* A session is named by its creation index s; the player a worker creates *)
(* is named by the index of the session that created it.  Every wait with  *)
(* a timeout (join, Event.wait, the polling loop) may end by its timeout.  *)
(*                                                                         *)
(* The server of src/test.py, whose handlers run on pool threads, is       *)
(* modelled beside it on variables of its own (t_...).                     *)
(*                                                                         *)
(* Specifications: Spec is the whole server of sever.py; SpecSolo, SpecPair *)
(* and SpecController are the same actions under one, two and MaxSessions  *)
(* start_speech requests; SpecTest is the server of test.py; SpecEngine is *)
(* a player of RealtimeMp3Player.py driven by a client of its own;         *)
(* SpecSoloFair and SpecPairFair add the scheduling of handlers and        *)
(* workers.                                                                *)
(*                                                                         *)
(* The TTSService of src/complete_sentence.py (start, stop and the         *)
(* synthesis workers they launch, sv_pc[k]) is modelled on variables of    *)
(* its own (svc_..., sv_...); SpecService is its specification.            *)
(***************************************************************************)
EXTENDS Integers, Sequences, FiniteSets, TLC

\* ------------------------------------------------------------- bounds
\* Number of sessions start_speech may create in one run.
MaxSessions == 3
\* Number of request threads of the pool that run test.py's handlers at the
\* same time.
PoolSize == 2
\* Number of frames the encoders deliver by on_data in one run.
MaxFrames == 1
\* len(data) of one frame handed to write().
FrameLen == 100
\* Decoded PCM bytes ffmpeg produces for one frame.
PcmPerFrame == 600
\* stdout.read(512) in play_audio.
ChunkBytes == 512
\* Calls a client makes on players it drives alone.
MaxCalls == 4
\* Workers TTSService.start may launch in one run.
MaxWorkers == 2
\* Text segments of a request to TTSService.
MaxSegments == 2
\* Audio chunks a worker of TTSService receives.
MaxChunks == 1

Sessions == 1..MaxSessions
Pool == 1..PoolSize
Workers == 1..MaxWorkers
None == 0

\* The request bodies (TTSRequest.data) the handlers are driven with.
Requests == { <<" ">>, <<"hi", "there">> }
PairRequests == { <<"hi">> }

VARIABLES
    \* --- controller (module globals of sever.py)
    current_session,     \* index of the current session, None when empty
    session_counter,     \* the id counter
    nSessions,           \* sessions constructed so far
    h_pc,                \* position of the event loop
    h_op,                \* handler being run: "none", "start_speech", "stop_speech"
    h_self,              \* session whose stop() the handler is inside
    h_texts,             \* request body of the running start_speech
    h_resp,              \* status of the last response a handler returned
    \* --- SpeechSession fields
    session_id, query_text, player, synthesizer, stop_event, is_stopped,
    synthesis_complete, all_text_processed,
    \* --- run_speech worker
    w_pc, w_i, player_started,
    \* --- encoder (SpeechSynthesizer) and its callback thread
    enc_recv,            \* fragments the encoder has received, in order
    enc_finish,          \* streaming_complete() was called
    enc_emitted,         \* frames delivered by on_data so far
    enc_term,            \* a terminal event (on_complete/on_error) was delivered
    cb_pc, cb_eng,
    \* --- RealtimeMp3Player fields
    e_is_stopped, e_stop_event, ffmpeg_process, e_stream, e_player,
    play_thread, audio_buffer_size, cleanup_lock,
    pcm,                 \* decoded bytes waiting in ffmpeg's stdout pipe
    d_pc, d_chunk,
    \* --- observations of the run
    dev_writes,          \* chunks written to the output device, per player
    late_write,          \* a device write happened with the session flag set
    cancel_recv,         \* fragments received when stop() was called, -1 if never
    cancel_after_data,   \* an on_data had been delivered when stop() was called
    teardowns,           \* per player: teardown bodies run and resources released
    sess_teardowns,      \* per session: stop() bodies run
    stopped_by,          \* per player: which call performed the teardown
    quiet_stop,          \* per player: no write() was in progress at the teardown
    wrote,               \* per session: players its on_data called write() on
    acquired,            \* per player: resources and threads it has created
    api_calls,           \* calls made by a client that drives a player alone
    \* --- src/test.py: module globals, request threads, session fields
    t_current,           \* current_session of test.py
    t_counter,           \* session_counter of test.py
    t_n,                 \* sessions constructed so far
    t_state_lock,        \* request thread that holds state_lock, None when free
    t_pc, t_op, t_self, t_resp,
    t_session_id, t_is_stopped, t_stop_event, t_player, t_synthesizer,
    t_launched,          \* thread.start() was called for the session
    t_w_pc,
    t_stop_bodies,       \* per session: times the body of stop() was entered
    \* --- src/complete_sentence.py: the TTSService object and its workers
    svc_state,           \* state: "idle", "running" or "stopped"
    svc_stop_event,      \* _stop_event
    svc_websocket,       \* worker whose connection self.websocket is, or None
    svc_player,          \* worker whose PyAudio instance self.player is, or None
    svc_stream,          \* worker whose stream self.stream is, or None
    svc_thread,          \* synthesis_thread: the worker launched last, or None
    svc_h,               \* position of the event loop inside start() or stop()
    svc_resp,            \* outcome of the last start() or stop()
    sv_pc,               \* position of each worker
    sv_sent,             \* per worker: text segments sent
    sv_played,           \* per worker: audio chunks written to self.stream
    sv_len,              \* per worker: number of text segments of its request
    sv_stopped           \* per worker: an accepted stop() ran while it was alive

ctl_vars  == << current_session, session_counter, nSessions, h_pc, h_op, h_self,
                h_texts, h_resp >>
sess_vars == << session_id, query_text, player, synthesizer, stop_event,
                is_stopped, synthesis_complete, all_text_processed >>
wrk_vars  == << w_pc, w_i, player_started >>
enc_vars  == << enc_recv, enc_finish, enc_emitted, enc_term, cb_pc, cb_eng >>
eng_vars  == << e_is_stopped, e_stop_event, ffmpeg_process, e_stream, e_player,
                play_thread, audio_buffer_size, cleanup_lock, pcm, d_pc, d_chunk >>
obs_vars  == << dev_writes, late_write, cancel_recv, cancel_after_data,
                teardowns, sess_teardowns, stopped_by, quiet_stop, wrote,
                acquired, api_calls >>
sever_vars == << ctl_vars, sess_vars, wrk_vars, enc_vars, eng_vars, obs_vars >>
t_ctl_vars  == << t_current, t_counter, t_n, t_state_lock, t_pc, t_op, t_self,
                  t_resp >>
t_sess_vars == << t_session_id, t_is_stopped, t_stop_event, t_player,
                  t_synthesizer, t_launched, t_w_pc, t_stop_bodies >>
test_vars == << t_ctl_vars, t_sess_vars >>
svc_vars == << svc_state, svc_stop_event, svc_websocket, svc_player, svc_stream,
              svc_thread, svc_h, svc_resp, sv_pc, sv_sent, sv_played, sv_len, sv_stopped >>
vars == << sever_vars, test_vars, svc_vars >>

\* Per player: calls of stop()/force_stop() that got past the lock, teardown
\* bodies entered, and releases of each resource.
NoRelease == [calls |-> 0, td |-> 0, ffmpeg |-> 0, stream |-> 0, pa |-> 0]

\* Per player: PyAudio instances, output streams, ffmpeg processes and
\* play_audio threads created so far.
NoneAcquired == [pa |-> 0, stream |-> 0, ffmpeg |-> 0, thread |-> 0]

\* SpeechSession.__init__ and RealtimeMp3Player.__init__ for every index
\* (a session that is not constructed yet holds its constructor's values).
Init ==
    /\ current_session = None
    /\ session_counter = 0
    /\ nSessions = 0
    /\ h_pc = "idle"
    /\ h_op = "none"
    /\ h_self = None
    /\ h_texts = <<>>
    /\ h_resp = "none"
    /\ session_id = [s \in Sessions |-> None]
    /\ query_text = [s \in Sessions |-> <<>>]
    /\ player = [s \in Sessions |-> None]
    /\ synthesizer = [s \in Sessions |-> FALSE]
    /\ stop_event = [s \in Sessions |-> FALSE]
    /\ is_stopped = [s \in Sessions |-> FALSE]
    /\ synthesis_complete = [s \in Sessions |-> FALSE]
    /\ all_text_processed = [s \in Sessions |-> FALSE]
    /\ w_pc = [s \in Sessions |-> "none"]
    /\ w_i = [s \in Sessions |-> 1]
    /\ player_started = [s \in Sessions |-> FALSE]
    /\ enc_recv = [s \in Sessions |-> <<>>]
    /\ enc_finish = [s \in Sessions |-> FALSE]
    /\ enc_emitted = [s \in Sessions |-> 0]
    /\ enc_term = [s \in Sessions |-> FALSE]
    /\ cb_pc = [s \in Sessions |-> "idle"]
    /\ cb_eng = [s \in Sessions |-> None]
    /\ e_is_stopped = [e \in Sessions |-> FALSE]
    /\ e_stop_event = [e \in Sessions |-> FALSE]
    /\ ffmpeg_process = [e \in Sessions |-> "none"]
    /\ e_stream = [e \in Sessions |-> FALSE]
    /\ e_player = [e \in Sessions |-> FALSE]
    /\ play_thread = [e \in Sessions |-> FALSE]
    /\ audio_buffer_size = [e \in Sessions |-> 0]
    /\ cleanup_lock = [e \in Sessions |-> "free"]
    /\ pcm = [e \in Sessions |-> 0]
    /\ d_pc = [e \in Sessions |-> "none"]
    /\ d_chunk = [e \in Sessions |-> 0]
    /\ dev_writes = [e \in Sessions |-> 0]
    /\ late_write = [e \in Sessions |-> FALSE]
    /\ cancel_recv = [s \in Sessions |-> -1]
    /\ cancel_after_data = [s \in Sessions |-> FALSE]
    /\ teardowns = [e \in Sessions |-> NoRelease]
    /\ sess_teardowns = [s \in Sessions |-> 0]
    /\ stopped_by = [e \in Sessions |-> "none"]
    /\ quiet_stop = [e \in Sessions |-> FALSE]
    /\ wrote = [s \in Sessions |-> {}]
    /\ acquired = [e \in Sessions |-> NoneAcquired]
    /\ api_calls = 0
    /\ t_current = None
    /\ t_counter = 0
    /\ t_n = 0
    /\ t_state_lock = None
    /\ t_pc = [r \in Pool |-> "idle"]
    /\ t_op = [r \in Pool |-> "none"]
    /\ t_self = [r \in Pool |-> None]
    /\ t_resp = [r \in Pool |-> "none"]
    /\ t_session_id = [s \in Sessions |-> None]
    /\ t_is_stopped = [s \in Sessions |-> FALSE]
    /\ t_stop_event = [s \in Sessions |-> FALSE]
    /\ t_player = [s \in Sessions |-> FALSE]
    /\ t_synthesizer = [s \in Sessions |-> FALSE]
    /\ t_launched = [s \in Sessions |-> FALSE]
    /\ t_w_pc = [s \in Sessions |-> "none"]
    /\ t_stop_bodies = [s \in Sessions |-> 0]
    /\ svc_state = "idle"
    /\ svc_stop_event = FALSE
    /\ svc_websocket = None
    /\ svc_player = None
    /\ svc_stream = None
    /\ svc_thread = None
    /\ svc_h = "idle"
    /\ svc_resp = "none"
    /\ sv_pc = [k \in Workers |-> "none"]
    /\ sv_sent = [k \in Workers |-> 0]
    /\ sv_played = [k \in Workers |-> 0]
    /\ sv_len = [k \in Workers |-> 0]
    /\ sv_stopped = [k \in Workers |-> FALSE]

\* Thread.is_alive() of a session's worker thread.
ThreadAlive(s) == w_pc[s] \notin {"none", "end", "crashed"}

\* Thread.is_alive() of a player's play_audio thread.
DrainAlive(e) == d_pc[e] \notin {"none", "dead"}


\* ------------------------------------------------------------ event loop
\* A get_next_session_id that hands out the counter without the increment.
GetSameSessionId(counter) == IF counter = 0 THEN 1 ELSE counter

\* get_next_session_id: increment under session_counter_lock, return the
\* new value.
GetNextSessionId(counter) == counter + 1

\* The handler returns its response and the event loop is free again.
Respond(status) ==
    /\ h_pc' = "idle"
    /\ h_op' = "none"
    /\ h_self' = None
    /\ h_texts' = <<>>
    /\ h_resp' = status

\* start_speech, entry: with state_lock; if current_session: call its stop().
\* The run accepts the request while fewer than limit sessions were created.
StartSpeech(limit, texts) ==
    /\ h_pc = "idle"
    /\ nSessions < limit
    /\ h_op' = "start_speech"
    /\ h_texts' = texts
    /\ IF current_session # None
          THEN h_pc' = "ss_enter" /\ h_self' = current_session
          ELSE h_pc' = "new" /\ h_self' = None
    /\ UNCHANGED << current_session, session_counter, nSessions, h_resp >>
    /\ UNCHANGED << sess_vars, wrk_vars, enc_vars, eng_vars, obs_vars >>
    /\ UNCHANGED << test_vars, svc_vars >>

\* stop_speech, entry: if current_session: call its stop(); else answer.
\* The response is "stopped" in both cases, with session_id None.
StopSpeech ==
    /\ h_pc = "idle"
    /\ IF current_session # None
          THEN /\ h_op' = "stop_speech"
               /\ h_pc' = "ss_enter"
               /\ h_self' = current_session
               /\ UNCHANGED << h_texts, h_resp >>
          ELSE Respond("stopped")
    /\ UNCHANGED << current_session, session_counter, nSessions >>
    /\ UNCHANGED << sess_vars, wrk_vars, enc_vars, eng_vars, obs_vars >>
    /\ UNCHANGED << test_vars, svc_vars >>

\* SpeechSession.stop, the guard of its body: under self._lock, return when
\* is_stopped, else set is_stopped.
SessionStopGuard(s) == ~is_stopped[s]

\* SpeechSession.stop, lines 73-83: the guard, is_stopped = True,
\* stop_event.set(), and the test of self.player that decides whether
\* force_stop() is called.
SessionStopEnter ==
    /\ h_pc = "ss_enter"
    /\ IF SessionStopGuard(h_self)
          THEN /\ is_stopped' = [is_stopped EXCEPT ![h_self] = TRUE]
               /\ stop_event' = [stop_event EXCEPT ![h_self] = TRUE]
               /\ sess_teardowns' = [sess_teardowns EXCEPT ![h_self] = @ + 1]
               /\ cancel_recv' = [cancel_recv EXCEPT ![h_self] =
                                     IF @ = -1 THEN Len(enc_recv[h_self]) ELSE @]
               /\ cancel_after_data' = [cancel_after_data EXCEPT ![h_self] =
                                     IF cancel_recv[h_self] = -1
                                        THEN enc_emitted[h_self] > 0 ELSE @]
               /\ h_pc' = IF player[h_self] # None THEN "fs_enter" ELSE "ss_clear"
          ELSE /\ h_pc' = "join"
               /\ UNCHANGED << is_stopped, stop_event, sess_teardowns,
                               cancel_recv, cancel_after_data >>
    /\ UNCHANGED << current_session, session_counter, nSessions, h_op, h_self,
                    h_texts, h_resp >>
    /\ UNCHANGED << session_id, query_text, player, synthesizer,
                    synthesis_complete, all_text_processed >>
    /\ UNCHANGED << wrk_vars, enc_vars, eng_vars >>
    /\ UNCHANGED << dev_writes, late_write, teardowns, stopped_by,
                    quiet_stop, wrote >>
    /\ UNCHANGED << acquired, api_calls >>
    /\ UNCHANGED << test_vars, svc_vars >>

\* A teardown whose body runs on every call.
TeardownAlways(e) == TRUE

\* The guard of the teardown body of stop() and force_stop(): under
\* _cleanup_lock, return when _is_stopped.
TeardownGuard(e) == ~e_is_stopped[e]

\* force_stop, lines 281-292: take _cleanup_lock; return if _is_stopped, else
\* _is_stopped = True and stop_event.set().
ForceStopEnter ==
    /\ h_pc = "fs_enter"
    /\ LET e == player[h_self] IN
       /\ cleanup_lock[e] = "free"
       /\ IF TeardownGuard(e)
             THEN /\ e_is_stopped' = [e_is_stopped EXCEPT ![e] = TRUE]
                  /\ e_stop_event' = [e_stop_event EXCEPT ![e] = TRUE]
                  /\ cleanup_lock' = [cleanup_lock EXCEPT ![e] = "handler"]
                  /\ teardowns' = [teardowns EXCEPT ![e].calls = @ + 1,
                                                    ![e].td = @ + 1]
                  /\ stopped_by' = [stopped_by EXCEPT ![e] = "force_stop"]
                  /\ quiet_stop' = [quiet_stop EXCEPT ![e] = (\A c \in Sessions : cb_eng[c] # e)]
                  /\ h_pc' = "fs_kill"
             ELSE /\ h_pc' = "ss_clear"
                  /\ teardowns' = [teardowns EXCEPT ![e].calls = @ + 1]
                  /\ UNCHANGED << e_is_stopped, e_stop_event, cleanup_lock,
                                  stopped_by, quiet_stop >>
    /\ UNCHANGED << current_session, session_counter, nSessions, h_op, h_self,
                    h_texts, h_resp >>
    /\ UNCHANGED << sess_vars, wrk_vars, enc_vars >>
    /\ UNCHANGED << ffmpeg_process, e_stream, e_player, play_thread,
                    audio_buffer_size, pcm, d_pc, d_chunk >>
    /\ UNCHANGED << dev_writes, late_write, cancel_recv, cancel_after_data,
                    sess_teardowns, wrote >>
    /\ UNCHANGED << acquired, api_calls >>
    /\ UNCHANGED << test_vars, svc_vars >>

\* force_stop, lines 295-301: kill ffmpeg, ffmpeg_process = None.
ForceStopKill ==
    /\ h_pc = "fs_kill"
    /\ LET e == player[h_self] IN
       IF ffmpeg_process[e] # "none"
          THEN /\ ffmpeg_process' = [ffmpeg_process EXCEPT ![e] = "none"]
               /\ teardowns' = [teardowns EXCEPT ![e].ffmpeg = @ + 1]
          ELSE UNCHANGED << ffmpeg_process, teardowns >>
    /\ h_pc' = "fs_join"
    /\ UNCHANGED << current_session, session_counter, nSessions, h_op, h_self,
                    h_texts, h_resp >>
    /\ UNCHANGED << sess_vars, wrk_vars, enc_vars >>
    /\ UNCHANGED << e_is_stopped, e_stop_event, e_stream, e_player, play_thread,
                    audio_buffer_size, cleanup_lock, pcm, d_pc, d_chunk >>
    /\ UNCHANGED << dev_writes, late_write, cancel_recv, cancel_after_data,
                    sess_teardowns, stopped_by,
                    quiet_stop, wrote >>
    /\ UNCHANGED << acquired, api_calls >>
    /\ UNCHANGED << test_vars, svc_vars >>

\* force_stop, line 304: if play_thread and play_thread.is_alive().
ForceStopJoin ==
    /\ h_pc = "fs_join"
    /\ LET e == player[h_self] IN
       h_pc' = IF play_thread[e] /\ DrainAlive(e) THEN "fs_joining" ELSE "fs_close"
    /\ UNCHANGED << current_session, session_counter, nSessions, h_op, h_self,
                    h_texts, h_resp >>
    /\ UNCHANGED << sess_vars, wrk_vars, enc_vars, eng_vars, obs_vars >>
    /\ UNCHANGED << test_vars, svc_vars >>

\* force_stop, lines 305-306: join(timeout=1) returns, because the thread has
\* ended or by its timeout; play_thread = None.
ForceStopJoined ==
    /\ h_pc = "fs_joining"
    /\ play_thread' = [play_thread EXCEPT ![player[h_self]] = FALSE]
    /\ h_pc' = "fs_close"
    /\ UNCHANGED << current_session, session_counter, nSessions, h_op, h_self,
                    h_texts, h_resp >>
    /\ UNCHANGED << sess_vars, wrk_vars, enc_vars >>
    /\ UNCHANGED << e_is_stopped, e_stop_event, ffmpeg_process, e_stream,
                    e_player, audio_buffer_size, cleanup_lock, pcm, d_pc, d_chunk >>
    /\ UNCHANGED obs_vars
    /\ UNCHANGED << test_vars, svc_vars >>

\* force_stop, lines 309-326: stop and close the stream, _stream = None;
\* terminate the PyAudio instance, _player = None.
ForceStopClose ==
    /\ h_pc = "fs_close"
    /\ LET e == player[h_self] IN
       /\ e_stream' = [e_stream EXCEPT ![e] = FALSE]
       /\ e_player' = [e_player EXCEPT ![e] = FALSE]
       /\ teardowns' = [teardowns EXCEPT
                           ![e].stream = IF e_stream[e] THEN @ + 1 ELSE @,
                           ![e].pa = IF e_player[e] THEN @ + 1 ELSE @]
    /\ h_pc' = "fs_reset"
    /\ UNCHANGED << current_session, session_counter, nSessions, h_op, h_self,
                    h_texts, h_resp >>
    /\ UNCHANGED << sess_vars, wrk_vars, enc_vars >>
    /\ UNCHANGED << e_is_stopped, e_stop_event, ffmpeg_process, play_thread,
                    audio_buffer_size, cleanup_lock, pcm, d_pc, d_chunk >>
    /\ UNCHANGED << dev_writes, late_write, cancel_recv, cancel_after_data,
                    sess_teardowns, stopped_by,
                    quiet_stop, wrote >>
    /\ UNCHANGED << acquired, api_calls >>
    /\ UNCHANGED << test_vars, svc_vars >>

\* force_stop, lines 329-330 and the end of the with block:
\* _audio_buffer_size = 0, release _cleanup_lock.
ForceStopReset ==
    /\ h_pc = "fs_reset"
    /\ LET e == player[h_self] IN
       /\ audio_buffer_size' = [audio_buffer_size EXCEPT ![e] = 0]
       /\ cleanup_lock' = [cleanup_lock EXCEPT ![e] = "free"]
    /\ h_pc' = "ss_clear"
    /\ UNCHANGED << current_session, session_counter, nSessions, h_op, h_self,
                    h_texts, h_resp >>
    /\ UNCHANGED << sess_vars, wrk_vars, enc_vars >>
    /\ UNCHANGED << e_is_stopped, e_stop_event, ffmpeg_process, e_stream,
                    e_player, play_thread, pcm, d_pc, d_chunk >>
    /\ UNCHANGED obs_vars
    /\ UNCHANGED << test_vars, svc_vars >>

\* SpeechSession.stop, lines 89-102: self.player = None (when a player was
\* there), self.synthesizer = None, synthesis_complete.set(),
\* all_text_processed.set(); the with block ends and stop() returns.
SessionStopClear ==
    /\ h_pc = "ss_clear"
    /\ player' = [player EXCEPT ![h_self] = None]
    /\ synthesizer' = [synthesizer EXCEPT ![h_self] = FALSE]
    /\ synthesis_complete' = [synthesis_complete EXCEPT ![h_self] = TRUE]
    /\ all_text_processed' = [all_text_processed EXCEPT ![h_self] = TRUE]
    /\ h_pc' = "join"
    /\ UNCHANGED << current_session, session_counter, nSessions, h_op, h_self,
                    h_texts, h_resp >>
    /\ UNCHANGED << session_id, query_text, stop_event, is_stopped >>
    /\ UNCHANGED << wrk_vars, enc_vars, eng_vars, obs_vars >>
    /\ UNCHANGED << test_vars, svc_vars >>

\* start_speech lines 244-246, stop_speech lines 286-290: if the thread is
\* alive, join(timeout=5.0), which returns when the worker has ended or by its
\* timeout; then current_session = None.  stop_speech then answers "stopped"
\* with session_id None.
JoinAndClear ==
    /\ h_pc = "join"
    /\ current_session' = None
    /\ IF h_op = "start_speech"
          THEN /\ h_pc' = "new"
               /\ h_self' = None
               /\ UNCHANGED << h_op, h_texts, h_resp >>
          ELSE Respond("stopped")
    /\ UNCHANGED << session_counter, nSessions >>
    /\ UNCHANGED << sess_vars, wrk_vars, enc_vars, eng_vars, obs_vars >>
    /\ UNCHANGED << test_vars, svc_vars >>

\* start_speech, lines 248-273: take the next id, construct the session, make
\* it current, start its thread, answer "started".
NewSession ==
    /\ h_pc = "new"
    /\ LET s == nSessions + 1
           id == GetNextSessionId(session_counter) IN
       /\ session_counter' = id
       /\ nSessions' = s
       /\ session_id' = [session_id EXCEPT ![s] = id]
       /\ query_text' = [query_text EXCEPT ![s] = h_texts]
       /\ current_session' = s
       /\ w_pc' = [w_pc EXCEPT ![s] = "init"]
       /\ Respond("started")
    /\ UNCHANGED << player, synthesizer, stop_event, is_stopped,
                    synthesis_complete, all_text_processed >>
    /\ UNCHANGED << w_i, player_started >>
    /\ UNCHANGED << enc_vars, eng_vars, obs_vars >>
    /\ UNCHANGED << test_vars, svc_vars >>

\* The steps of the event loop inside a handler, after its entry.
HandlerStep ==
    \/ SessionStopEnter
    \/ ForceStopEnter
    \/ ForceStopKill
    \/ ForceStopJoin
    \/ ForceStopJoined
    \/ ForceStopClose
    \/ ForceStopReset
    \/ SessionStopClear
    \/ JoinAndClear
    \/ NewSession

\* ------------------------------------------------------------ run_speech
\* The outcomes of RealtimeMp3Player.start() on a player that is not stopped:
\* everything is created, or the device cannot be opened (PyAudio.open
\* raises), or ffmpeg cannot be spawned (Popen raises).
StartOutcomes == {"ok", "no_device", "no_ffmpeg"}

\* start() without its test of _is_stopped.
StartNeverSkipped(e) == FALSE

\* start(), line 58: under _cleanup_lock, nothing is done when _is_stopped.
StartSkipped(e) == e_is_stopped[e]

\* What start() creates (lines 59-74): a PyAudio instance, then the output
\* stream unless open() raises, then the ffmpeg process unless Popen raises.
Acquire(a, outcome) ==
    [a EXCEPT !.pa = @ + 1,
              !.stream = IF outcome # "no_device" THEN @ + 1 ELSE @,
              !.ffmpeg = IF outcome = "ok" THEN @ + 1 ELSE @]

\* is_playing(), lines 221-255: the first of the checks that decides.
IsPlaying(e) ==
    IF e_is_stopped[e] THEN FALSE
    ELSE IF play_thread[e] /\ DrainAlive(e) THEN TRUE
    ELSE IF ffmpeg_process[e] # "none" THEN ffmpeg_process[e] = "running"
    ELSE IF e_stream[e] THEN TRUE
    ELSE audio_buffer_size[e] > 0

\* get_buffer_status(), lines 257-274.
GetBufferStatus(e) ==
    [ is_playing  |-> IsPlaying(e),
      buffer_size |-> audio_buffer_size[e],
      is_stopped  |-> e_is_stopped[e] ]

\* run_speech without its first test of stop_event.
NeverCancelledBeforeStart(s) == FALSE

\* run_speech, line 112: the first test of the session's stop_event.
CancelledBeforeStart(s) == stop_event[s]

\* run_speech, lines 112-114: if session.stop_event.is_set(): return (to the
\* finally block).
WorkerInit(s) ==
    /\ w_pc[s] = "init"
    /\ w_pc' = [w_pc EXCEPT ![s] = IF CancelledBeforeStart(s) THEN "finally" ELSE "mk"]
    /\ UNCHANGED << w_i, player_started >>
    /\ UNCHANGED << ctl_vars, sess_vars, enc_vars, eng_vars, obs_vars >>
    /\ UNCHANGED << test_vars, svc_vars >>

\* run_speech, line 117: session.player = RealtimeMp3Player(verbose=True).
WorkerMakePlayer(s) ==
    /\ w_pc[s] = "mk"
    /\ player' = [player EXCEPT ![s] = s]
    /\ w_pc' = [w_pc EXCEPT ![s] = "start"]
    /\ UNCHANGED << session_id, query_text, synthesizer, stop_event, is_stopped,
                    synthesis_complete, all_text_processed >>
    /\ UNCHANGED << w_i, player_started >>
    /\ UNCHANGED << ctl_vars, enc_vars, eng_vars, obs_vars >>
    /\ UNCHANGED << test_vars, svc_vars >>

\* run_speech, lines 118-119: session.player.start(); player_started = True.
\* session.player is read again: when stop() has set it to None the call
\* raises AttributeError, which the except clause catches.  start() (lines
\* 53-78) runs under _cleanup_lock and does nothing on a stopped player; an
\* exception of PyAudio.open or Popen leaves start() and is caught by
\* run_speech.
WorkerStartPlayer(s) ==
    /\ w_pc[s] = "start"
    /\ IF player[s] = None
          THEN /\ w_pc' = [w_pc EXCEPT ![s] = "finally"]
               /\ UNCHANGED << player_started, e_player, e_stream, ffmpeg_process,
                               acquired >>
          ELSE LET e == player[s] IN
               /\ cleanup_lock[e] = "free"
               /\ IF StartSkipped(e)
                     THEN /\ w_pc' = [w_pc EXCEPT ![s] = "synth"]
                          /\ player_started' = [player_started EXCEPT ![s] = TRUE]
                          /\ UNCHANGED << e_player, e_stream, ffmpeg_process,
                                          acquired >>
                     ELSE \E outcome \in StartOutcomes :
                          /\ acquired' = [acquired EXCEPT ![e] = Acquire(@, outcome)]
                          /\ e_player' = [e_player EXCEPT ![e] = TRUE]
                          /\ e_stream' = [e_stream EXCEPT ![e] = (outcome # "no_device")]
                          /\ ffmpeg_process' = [ffmpeg_process EXCEPT ![e] =
                                IF outcome = "ok" THEN "running" ELSE "none"]
                          /\ player_started' = [player_started EXCEPT ![s] =
                                                   (outcome = "ok")]
                          /\ w_pc' = [w_pc EXCEPT ![s] =
                                IF outcome = "ok" THEN "synth" ELSE "finally"]
    /\ UNCHANGED w_i
    /\ UNCHANGED << e_is_stopped, e_stop_event, play_thread, audio_buffer_size,
                    cleanup_lock, pcm, d_pc, d_chunk >>
    /\ UNCHANGED << dev_writes, late_write, cancel_recv, cancel_after_data,
                    teardowns, sess_teardowns, stopped_by, quiet_stop, wrote,
                    api_calls >>
    /\ UNCHANGED << ctl_vars, sess_vars, enc_vars >>
    /\ UNCHANGED << test_vars, svc_vars >>

\* run_speech, lines 154-158: session.synthesizer = SpeechSynthesizer(...,
\* callback=Callback(session)).
WorkerMakeSynth(s) ==
    /\ w_pc[s] = "synth"
    /\ synthesizer' = [synthesizer EXCEPT ![s] = TRUE]
    /\ w_pc' = [w_pc EXCEPT ![s] = "loop"]
    /\ UNCHANGED << session_id, query_text, player, stop_event, is_stopped,
                    synthesis_complete, all_text_processed >>
    /\ UNCHANGED << w_i, player_started >>
    /\ UNCHANGED << ctl_vars, enc_vars, eng_vars, obs_vars >>
    /\ UNCHANGED << test_vars, svc_vars >>

\* chunk.strip(): a fragment of whitespace only is falsy.
Strip(chunk) == IF chunk = " " THEN "" ELSE chunk

\* The check at the top of the submission loop, line 163.
LoopStopRequested(s) == stop_event[s]

\* run_speech, lines 162-170, up to the call: the for statement takes the
\* next chunk; break when stop_event is set; a chunk that strips to nothing
\* is skipped; else session.synthesizer is read as the receiver of
\* streaming_call: when stop() has set it to None the call raises
\* AttributeError, which the inner except catches, and the loop breaks.
WorkerLoop(s) ==
    /\ w_pc[s] = "loop"
    /\ IF w_i[s] > Len(query_text[s]) \/ LoopStopRequested(s)
          THEN /\ w_pc' = [w_pc EXCEPT ![s] = "cmpl"]
               /\ UNCHANGED w_i
          ELSE IF Strip(query_text[s][w_i[s]]) = ""
          THEN /\ w_i' = [w_i EXCEPT ![s] = @ + 1]
               /\ UNCHANGED w_pc
          ELSE /\ w_pc' = [w_pc EXCEPT ![s] = IF synthesizer[s] THEN "call" ELSE "cmpl"]
               /\ UNCHANGED w_i
    /\ UNCHANGED player_started
    /\ UNCHANGED << ctl_vars, sess_vars, enc_vars, eng_vars, obs_vars >>
    /\ UNCHANGED << test_vars, svc_vars >>

\* run_speech, lines 170-173: streaming_call(chunk) on the synthesizer that
\* was read: the encoder receives the fragment, or the call raises and the
\* loop breaks.
WorkerStreamingCall(s) ==
    /\ w_pc[s] = "call"
    /\ \/ /\ enc_recv' = [enc_recv EXCEPT ![s] = Append(@, query_text[s][w_i[s]])]
          /\ w_i' = [w_i EXCEPT ![s] = @ + 1]
          /\ w_pc' = [w_pc EXCEPT ![s] = "loop"]
       \/ /\ w_pc' = [w_pc EXCEPT ![s] = "cmpl"]
          /\ UNCHANGED << enc_recv, w_i >>
    /\ UNCHANGED player_started
    /\ UNCHANGED << enc_finish, enc_emitted, enc_term, cb_pc, cb_eng >>
    /\ UNCHANGED << ctl_vars, sess_vars, eng_vars, obs_vars >>
    /\ UNCHANGED << test_vars, svc_vars >>

\* run_speech, lines 176-181: session.all_text_processed.set(); if
\* session.synthesizer and not stop_event: streaming_complete().  Control
\* then reaches the finally block.
WorkerComplete(s) ==
    /\ w_pc[s] = "cmpl"
    /\ all_text_processed' = [all_text_processed EXCEPT ![s] = TRUE]
    /\ enc_finish' = [enc_finish EXCEPT ![s] =
                         @ \/ (synthesizer[s] /\ ~stop_event[s])]
    /\ w_pc' = [w_pc EXCEPT ![s] = "finally"]
    /\ UNCHANGED << w_i, player_started >>
    /\ UNCHANGED << enc_recv, enc_emitted, enc_term, cb_pc, cb_eng >>
    /\ UNCHANGED << session_id, query_text, player, synthesizer, stop_event,
                    is_stopped, synthesis_complete >>
    /\ UNCHANGED << ctl_vars, eng_vars, obs_vars >>
    /\ UNCHANGED << test_vars, svc_vars >>

\* run_speech, lines 187-193: unless stop_event is set,
\* synthesis_complete.wait(timeout=15.0), which returns when the latch is set
\* or by its timeout; then if session.player and player_started.
WorkerFinally(s) ==
    /\ w_pc[s] = "finally"
    /\ w_pc' = [w_pc EXCEPT ![s] =
                   IF player[s] # None /\ player_started[s] THEN "poll" ELSE "end"]
    /\ UNCHANGED << w_i, player_started >>
    /\ UNCHANGED << ctl_vars, sess_vars, enc_vars, eng_vars, obs_vars >>
    /\ UNCHANGED << test_vars, svc_vars >>

\* The polling loop without its deadline: it is left only when is_playing()
\* is false or stop_event is set.
WorkerPollForever(s) ==
    /\ w_pc[s] = "poll"
    /\ w_pc' = [w_pc EXCEPT ![s] =
                   IF player[s] = None THEN "crashed"
                   ELSE IF IsPlaying(player[s]) /\ ~stop_event[s] THEN "poll"
                   ELSE "pstop"]
    /\ UNCHANGED << w_i, player_started >>
    /\ UNCHANGED << ctl_vars, sess_vars, enc_vars, eng_vars, obs_vars >>
    /\ UNCHANGED << test_vars, svc_vars >>

\* run_speech, lines 200-214: the polling loop.  It ends by its 20 s timeout,
\* or when is_playing() is false, or when stop_event is set after the sleep;
\* else it polls again.  session.player is read for is_playing(): when stop()
\* has set it to None the read raises AttributeError inside the finally
\* block, which ends the thread.
WorkerPoll(s) ==
    /\ w_pc[s] = "poll"
    /\ \/ w_pc' = [w_pc EXCEPT ![s] = "pstop"]
       \/ w_pc' = [w_pc EXCEPT ![s] =
                      IF player[s] = None THEN "crashed"
                      ELSE IF IsPlaying(player[s]) /\ ~stop_event[s] THEN "poll"
                      ELSE "pstop"]
    /\ UNCHANGED << w_i, player_started >>
    /\ UNCHANGED << ctl_vars, sess_vars, enc_vars, eng_vars, obs_vars >>
    /\ UNCHANGED << test_vars, svc_vars >>

\* run_speech, line 219, and stop() lines 82-93: session.player.stop().  When
\* stop() of the session has set session.player to None the call raises
\* AttributeError, which the try around it catches.  stop() takes
\* _cleanup_lock, returns if _is_stopped, else sets _is_stopped and
\* stop_event.
WorkerStopPlayer(s) ==
    /\ w_pc[s] = "pstop"
    /\ IF player[s] = None
          THEN /\ w_pc' = [w_pc EXCEPT ![s] = "end"]
               /\ UNCHANGED << e_is_stopped, e_stop_event, cleanup_lock,
                               teardowns, stopped_by, quiet_stop >>
          ELSE LET e == player[s] IN
               /\ cleanup_lock[e] = "free"
               /\ IF TeardownGuard(e)
                     THEN /\ e_is_stopped' = [e_is_stopped EXCEPT ![e] = TRUE]
                          /\ e_stop_event' = [e_stop_event EXCEPT ![e] = TRUE]
                          /\ cleanup_lock' = [cleanup_lock EXCEPT ![e] = "worker"]
                          /\ teardowns' = [teardowns EXCEPT ![e].calls = @ + 1,
                                                            ![e].td = @ + 1]
                          /\ stopped_by' = [stopped_by EXCEPT ![e] = "stop"]
                          /\ quiet_stop' = [quiet_stop EXCEPT ![e] = (\A c \in Sessions : cb_eng[c] # e)]
                          /\ w_pc' = [w_pc EXCEPT ![s] = "es_join"]
                     ELSE /\ w_pc' = [w_pc EXCEPT ![s] = "end"]
                          /\ teardowns' = [teardowns EXCEPT ![e].calls = @ + 1]
                          /\ UNCHANGED << e_is_stopped, e_stop_event, cleanup_lock,
                                          stopped_by, quiet_stop >>
    /\ UNCHANGED << w_i, player_started >>
    /\ UNCHANGED << ffmpeg_process, e_stream, e_player, play_thread,
                    audio_buffer_size, pcm, d_pc, d_chunk >>
    /\ UNCHANGED << dev_writes, late_write, cancel_recv, cancel_after_data,
                    sess_teardowns, wrote >>
    /\ UNCHANGED << ctl_vars, sess_vars, enc_vars >>
    /\ UNCHANGED << acquired, api_calls >>
    /\ UNCHANGED << test_vars, svc_vars >>

\* stop(), line 96: if play_thread and play_thread.is_alive().  Inside stop()
\* the player is the one the worker created (index s).
StopJoin(s) ==
    /\ w_pc[s] = "es_join"
    /\ w_pc' = [w_pc EXCEPT ![s] =
                   IF play_thread[s] /\ DrainAlive(s) THEN "es_joining" ELSE "es_ffmpeg"]
    /\ UNCHANGED << w_i, player_started >>
    /\ UNCHANGED << ctl_vars, sess_vars, enc_vars, eng_vars, obs_vars >>
    /\ UNCHANGED << test_vars, svc_vars >>

\* stop(), lines 97-98: join(timeout=1) returns, because the thread has ended
\* or by its timeout; play_thread = None.
StopJoined(s) ==
    /\ w_pc[s] = "es_joining"
    /\ play_thread' = [play_thread EXCEPT ![s] = FALSE]
    /\ w_pc' = [w_pc EXCEPT ![s] = "es_ffmpeg"]
    /\ UNCHANGED << w_i, player_started >>
    /\ UNCHANGED << e_is_stopped, e_stop_event, ffmpeg_process, e_stream,
                    e_player, audio_buffer_size, cleanup_lock, pcm, d_pc, d_chunk >>
    /\ UNCHANGED << ctl_vars, sess_vars, enc_vars, obs_vars >>
    /\ UNCHANGED << test_vars, svc_vars >>

\* stop(), lines 101-115: close ffmpeg's stdin, wait for it to exit
\* (terminate, then kill, on timeout), ffmpeg_process = None.
StopFfmpeg(s) ==
    /\ w_pc[s] = "es_ffmpeg"
    /\ IF ffmpeg_process[s] # "none"
          THEN /\ ffmpeg_process' = [ffmpeg_process EXCEPT ![s] = "none"]
               /\ teardowns' = [teardowns EXCEPT ![s].ffmpeg = @ + 1]
          ELSE UNCHANGED << ffmpeg_process, teardowns >>
    /\ w_pc' = [w_pc EXCEPT ![s] = "es_close"]
    /\ UNCHANGED << w_i, player_started >>
    /\ UNCHANGED << e_is_stopped, e_stop_event, e_stream, e_player, play_thread,
                    audio_buffer_size, cleanup_lock, pcm, d_pc, d_chunk >>
    /\ UNCHANGED << dev_writes, late_write, cancel_recv, cancel_after_data,
                    sess_teardowns, stopped_by,
                    quiet_stop, wrote >>
    /\ UNCHANGED << ctl_vars, sess_vars, enc_vars >>
    /\ UNCHANGED << acquired, api_calls >>
    /\ UNCHANGED << test_vars, svc_vars >>

\* stop(), lines 118-138 and the end of the with block: stop and close the
\* stream, _stream = None; terminate the PyAudio instance, _player = None;
\* release _cleanup_lock.  stop() leaves _audio_buffer_size as it is.
\* run_speech then ends.
StopClose(s) ==
    /\ w_pc[s] = "es_close"
    /\ e_stream' = [e_stream EXCEPT ![s] = FALSE]
    /\ e_player' = [e_player EXCEPT ![s] = FALSE]
    /\ teardowns' = [teardowns EXCEPT
                        ![s].stream = IF e_stream[s] THEN @ + 1 ELSE @,
                        ![s].pa = IF e_player[s] THEN @ + 1 ELSE @]
    /\ cleanup_lock' = [cleanup_lock EXCEPT ![s] = "free"]
    /\ w_pc' = [w_pc EXCEPT ![s] = "end"]
    /\ UNCHANGED << w_i, player_started >>
    /\ UNCHANGED << e_is_stopped, e_stop_event, ffmpeg_process,
                    play_thread, audio_buffer_size, pcm, d_pc, d_chunk >>
    /\ UNCHANGED << dev_writes, late_write, cancel_recv, cancel_after_data,
                    sess_teardowns, stopped_by,
                    quiet_stop, wrote >>
    /\ UNCHANGED << ctl_vars, sess_vars, enc_vars >>
    /\ UNCHANGED << acquired, api_calls >>
    /\ UNCHANGED << test_vars, svc_vars >>

Worker(s) ==
    \/ WorkerInit(s)
    \/ WorkerMakePlayer(s)
    \/ WorkerStartPlayer(s)
    \/ WorkerMakeSynth(s)
    \/ WorkerLoop(s)
    \/ WorkerStreamingCall(s)
    \/ WorkerComplete(s)
    \/ WorkerFinally(s)
    \/ WorkerPoll(s)
    \/ WorkerStopPlayer(s)
    \/ StopJoin(s)
    \/ StopJoined(s)
    \/ StopFfmpeg(s)
    \/ StopClose(s)

\* ------------------------------------------------- encoder and Callback
\* A Callback that looks the session up in the global current_session when a
\* frame arrives.
CallbackCurrent(s) == IF current_session # None THEN current_session ELSE s

\* The session a Callback forwards to: self.session, bound to the sess its
\* constructor was given (Callback(session) in run_speech of session s).
CallbackSession(s) == s

\* Frames delivered by the encoders of all sessions together.
RECURSIVE SumTo(_, _)
SumTo(f, n) == IF n = 0 THEN 0 ELSE f[n] + SumTo(f, n - 1)
FramesDelivered == SumTo(enc_emitted, MaxSessions)

\* The encoder delivers one more frame: on_data(data) starts on the callback
\* thread.  Frames come only after a fragment was received and before the
\* terminal event; the run delivers at most MaxFrames frames in all.
EncoderData(s) ==
    /\ cb_pc[s] = "idle"
    /\ Len(enc_recv[s]) > 0
    /\ ~enc_term[s]
    /\ FramesDelivered < MaxFrames
    /\ enc_emitted' = [enc_emitted EXCEPT ![s] = @ + 1]
    /\ cb_pc' = [cb_pc EXCEPT ![s] = "on_data"]
    /\ UNCHANGED << enc_recv, enc_finish, enc_term, cb_eng >>
    /\ UNCHANGED << ctl_vars, sess_vars, wrk_vars, eng_vars, obs_vars >>
    /\ UNCHANGED << test_vars, svc_vars >>

\* An on_data that tests only self.session.player.
OnDataIgnoresFlag(t) == player[t] # None

\* The condition of on_data, line 147.
OnDataForwards(t) == ~stop_event[t] /\ player[t] # None

\* on_data, lines 146-151: if not self.session.stop_event.is_set() and
\* self.session.player: self.session.player.write(data).
OnData(s) ==
    /\ cb_pc[s] = "on_data"
    /\ LET t == CallbackSession(s) IN
       IF OnDataForwards(t)
          THEN /\ cb_pc' = [cb_pc EXCEPT ![s] = "w_chk"]
               /\ cb_eng' = [cb_eng EXCEPT ![s] = player[t]]
               /\ wrote' = [wrote EXCEPT ![s] = @ \cup {player[t]}]
          ELSE /\ cb_pc' = [cb_pc EXCEPT ![s] = "idle"]
               /\ UNCHANGED << cb_eng, wrote >>
    /\ UNCHANGED << enc_recv, enc_finish, enc_emitted, enc_term >>
    /\ UNCHANGED << dev_writes, late_write, cancel_recv, cancel_after_data,
                    teardowns, sess_teardowns, stopped_by, quiet_stop >>
    /\ UNCHANGED << ctl_vars, sess_vars, wrk_vars, eng_vars >>
    /\ UNCHANGED << acquired, api_calls >>
    /\ UNCHANGED << test_vars, svc_vars >>

\* write() without its test of the flags.
WriteNeverRejected(e) == FALSE

\* write(), line 198: the test that makes write() return at once.
WriteRejected(e) == e_is_stopped[e] \/ e_stop_event[e]

\* write(), lines 198-199: return if _is_stopped or stop_event.is_set().
WriteCheck(s) ==
    /\ cb_pc[s] = "w_chk"
    /\ LET e == cb_eng[s] IN
       IF WriteRejected(e)
          THEN /\ cb_pc' = [cb_pc EXCEPT ![s] = "idle"]
               /\ cb_eng' = [cb_eng EXCEPT ![s] = None]
          ELSE /\ cb_pc' = [cb_pc EXCEPT ![s] = "w_feed"]
               /\ UNCHANGED cb_eng
    /\ UNCHANGED << enc_recv, enc_finish, enc_emitted, enc_term >>
    /\ UNCHANGED << ctl_vars, sess_vars, wrk_vars, eng_vars, obs_vars >>
    /\ UNCHANGED << test_vars, svc_vars >>

\* write(), lines 202-204: if self.ffmpeg_process and its stdin:
\* stdin.write(data); ffmpeg decodes the frame into its stdout pipe.  With
\* the process gone the write is skipped, or raises and is caught at line 217.
WriteFeed(s) ==
    /\ cb_pc[s] = "w_feed"
    /\ LET e == cb_eng[s] IN
       IF ffmpeg_process[e] # "running"
          THEN /\ cb_pc' = [cb_pc EXCEPT ![s] = "idle"]
               /\ cb_eng' = [cb_eng EXCEPT ![s] = None]
               /\ UNCHANGED pcm
          ELSE /\ pcm' = [pcm EXCEPT ![e] = @ + PcmPerFrame]
               /\ cb_pc' = [cb_pc EXCEPT ![s] = "w_cnt"]
               /\ UNCHANGED cb_eng
    /\ UNCHANGED << enc_recv, enc_finish, enc_emitted, enc_term >>
    /\ UNCHANGED << e_is_stopped, e_stop_event, ffmpeg_process, e_stream, e_player,
                    play_thread, audio_buffer_size, cleanup_lock, d_pc, d_chunk >>
    /\ UNCHANGED << ctl_vars, sess_vars, wrk_vars, obs_vars >>
    /\ UNCHANGED << test_vars, svc_vars >>

\* write(), lines 207-208: _audio_buffer_size += len(data).
WriteCount(s) ==
    /\ cb_pc[s] = "w_cnt"
    /\ audio_buffer_size' = [audio_buffer_size EXCEPT ![cb_eng[s]] = @ + FrameLen]
    /\ cb_pc' = [cb_pc EXCEPT ![s] = "w_thread"]
    /\ UNCHANGED << enc_recv, enc_finish, enc_emitted, enc_term, cb_eng >>
    /\ UNCHANGED << e_is_stopped, e_stop_event, ffmpeg_process, e_stream, e_player,
                    play_thread, cleanup_lock, pcm, d_pc, d_chunk >>
    /\ UNCHANGED << ctl_vars, sess_vars, wrk_vars, obs_vars >>
    /\ UNCHANGED << test_vars, svc_vars >>

\* write(), lines 210-216: if play_thread is None: start the stream, create
\* and start the play_audio thread.  A thread created while an earlier one
\* is still running finds stop_event set (play_thread is only reset inside a
\* teardown) and ends at once.
WriteThread(s) ==
    /\ cb_pc[s] = "w_thread"
    /\ LET e == cb_eng[s] IN
       IF ~play_thread[e]
          THEN /\ play_thread' = [play_thread EXCEPT ![e] = TRUE]
               /\ d_pc' = [d_pc EXCEPT ![e] = IF DrainAlive(e) THEN @ ELSE "top"]
               /\ acquired' = [acquired EXCEPT ![e].thread = @ + 1]
          ELSE UNCHANGED << play_thread, d_pc, acquired >>
    /\ cb_pc' = [cb_pc EXCEPT ![s] = "idle"]
    /\ cb_eng' = [cb_eng EXCEPT ![s] = None]
    /\ UNCHANGED << enc_recv, enc_finish, enc_emitted, enc_term >>
    /\ UNCHANGED << e_is_stopped, e_stop_event, ffmpeg_process, e_stream, e_player,
                    audio_buffer_size, cleanup_lock, pcm, d_chunk >>
    /\ UNCHANGED << dev_writes, late_write, cancel_recv, cancel_after_data,
                    teardowns, sess_teardowns, stopped_by, quiet_stop, wrote,
                    api_calls >>
    /\ UNCHANGED << ctl_vars, sess_vars, wrk_vars >>
    /\ UNCHANGED << test_vars, svc_vars >>

\* on_complete, lines 132-135: after streaming_complete() the encoder reports
\* the end; synthesis_complete.set().
EncoderComplete(s) ==
    /\ cb_pc[s] = "idle"
    /\ enc_finish[s]
    /\ ~enc_term[s]
    /\ enc_term' = [enc_term EXCEPT ![s] = TRUE]
    /\ synthesis_complete' = [synthesis_complete EXCEPT ![s] = TRUE]
    /\ UNCHANGED << enc_recv, enc_finish, enc_emitted, cb_pc, cb_eng >>
    /\ UNCHANGED << session_id, query_text, player, synthesizer, stop_event,
                    is_stopped, all_text_processed >>
    /\ UNCHANGED << ctl_vars, wrk_vars, eng_vars, obs_vars >>
    /\ UNCHANGED << test_vars, svc_vars >>

\* on_error, lines 137-140: the encoder fails after it received text;
\* synthesis_complete.set().
EncoderError(s) ==
    /\ cb_pc[s] = "idle"
    /\ Len(enc_recv[s]) > 0
    /\ ~enc_term[s]
    /\ enc_term' = [enc_term EXCEPT ![s] = TRUE]
    /\ synthesis_complete' = [synthesis_complete EXCEPT ![s] = TRUE]
    /\ UNCHANGED << enc_recv, enc_finish, enc_emitted, cb_pc, cb_eng >>
    /\ UNCHANGED << session_id, query_text, player, synthesizer, stop_event,
                    is_stopped, all_text_processed >>
    /\ UNCHANGED << ctl_vars, wrk_vars, eng_vars, obs_vars >>
    /\ UNCHANGED << test_vars, svc_vars >>

Encoder(s) ==
    \/ EncoderData(s)
    \/ OnData(s)
    \/ WriteCheck(s)
    \/ WriteFeed(s)
    \/ WriteCount(s)
    \/ WriteThread(s)
    \/ EncoderComplete(s)
    \/ EncoderError(s)

\* ------------------------------------------------------------ play_audio
\* The smaller of two byte counts.
Min(a, b) == IF a < b THEN a ELSE b

\* The decrement without max(0, ...).
ConsumeUnclamped(size, n) == size - n

\* play_audio, line 175: max(0, _audio_buffer_size - len(pcm_data)).
Consume(size, n) == IF size - n > 0 THEN size - n ELSE 0

\* play_audio, lines 150-155: leave the loop when stop_event is set or the
\* process or the stream is gone.
DrainTop(e) ==
    /\ d_pc[e] = "top"
    /\ d_pc' = [d_pc EXCEPT ![e] =
                   IF e_stop_event[e] \/ ffmpeg_process[e] = "none" \/ ~e_stream[e]
                      THEN "dead" ELSE "read"]
    /\ UNCHANGED << e_is_stopped, e_stop_event, ffmpeg_process, e_stream, e_player,
                    play_thread, audio_buffer_size, cleanup_lock, pcm, d_chunk >>
    /\ UNCHANGED << ctl_vars, sess_vars, wrk_vars, enc_vars, obs_vars >>
    /\ UNCHANGED << test_vars, svc_vars >>

\* play_audio, lines 157-165 and 181-183: stdout.read(512) blocks until 512
\* bytes are there or the pipe is at its end.  With the process gone the read
\* raises (ffmpeg_process is None), or returns what is left in the pipe, or
\* returns nothing; the loop ends unless data was returned.
DrainRead(e) ==
    /\ d_pc[e] = "read"
    /\ \/ /\ ffmpeg_process[e] = "running"
          /\ pcm[e] >= ChunkBytes
          /\ d_chunk' = [d_chunk EXCEPT ![e] = ChunkBytes]
          /\ pcm' = [pcm EXCEPT ![e] = @ - ChunkBytes]
          /\ d_pc' = [d_pc EXCEPT ![e] = "chk"]
       \/ /\ ffmpeg_process[e] # "running"
          /\ pcm[e] > 0
          /\ d_chunk' = [d_chunk EXCEPT ![e] = Min(pcm[e], ChunkBytes)]
          /\ pcm' = [pcm EXCEPT ![e] = @ - Min(pcm[e], ChunkBytes)]
          /\ d_pc' = [d_pc EXCEPT ![e] = "chk"]
       \/ /\ ffmpeg_process[e] # "running"
          /\ d_pc' = [d_pc EXCEPT ![e] = "dead"]
          /\ UNCHANGED << d_chunk, pcm >>
    /\ UNCHANGED << e_is_stopped, e_stop_event, ffmpeg_process, e_stream, e_player,
                    play_thread, audio_buffer_size, cleanup_lock >>
    /\ UNCHANGED << ctl_vars, sess_vars, wrk_vars, enc_vars, obs_vars >>
    /\ UNCHANGED << test_vars, svc_vars >>

\* play_audio, lines 167-168: if self.stop_event.is_set(): break.
DrainCheck(e) ==
    /\ d_pc[e] = "chk"
    /\ IF e_stop_event[e]
          THEN /\ d_pc' = [d_pc EXCEPT ![e] = "dead"]
               /\ d_chunk' = [d_chunk EXCEPT ![e] = 0]
          ELSE /\ d_pc' = [d_pc EXCEPT ![e] = "dev"]
               /\ UNCHANGED d_chunk
    /\ UNCHANGED << e_is_stopped, e_stop_event, ffmpeg_process, e_stream, e_player,
                    play_thread, audio_buffer_size, cleanup_lock, pcm >>
    /\ UNCHANGED << ctl_vars, sess_vars, wrk_vars, enc_vars, obs_vars >>
    /\ UNCHANGED << test_vars, svc_vars >>

\* play_audio, line 171: self._stream.write(pcm_data), the write to the
\* output device; with the stream gone it raises and the loop ends.  The
\* player e belongs to session e.
DrainDevice(e) ==
    /\ d_pc[e] = "dev"
    /\ IF e_stream[e]
          THEN /\ dev_writes' = [dev_writes EXCEPT ![e] = @ + 1]
               /\ late_write' = [late_write EXCEPT ![e] = @ \/ stop_event[e]]
               /\ d_pc' = [d_pc EXCEPT ![e] = "cnt"]
               /\ UNCHANGED d_chunk
          ELSE /\ d_pc' = [d_pc EXCEPT ![e] = "dead"]
               /\ d_chunk' = [d_chunk EXCEPT ![e] = 0]
               /\ UNCHANGED << dev_writes, late_write >>
    /\ UNCHANGED << e_is_stopped, e_stop_event, ffmpeg_process, e_stream, e_player,
                    play_thread, audio_buffer_size, cleanup_lock, pcm >>
    /\ UNCHANGED << cancel_recv, cancel_after_data, teardowns, sess_teardowns,
                    stopped_by,
                    quiet_stop, wrote >>
    /\ UNCHANGED << ctl_vars, sess_vars, wrk_vars, enc_vars >>
    /\ UNCHANGED << acquired, api_calls >>
    /\ UNCHANGED << test_vars, svc_vars >>

\* play_audio, lines 174-175: the counter is decreased by the chunk's length.
DrainCount(e) ==
    /\ d_pc[e] = "cnt"
    /\ audio_buffer_size' = [audio_buffer_size EXCEPT ![e] = Consume(@, d_chunk[e])]
    /\ d_chunk' = [d_chunk EXCEPT ![e] = 0]
    /\ d_pc' = [d_pc EXCEPT ![e] = "top"]
    /\ UNCHANGED << e_is_stopped, e_stop_event, ffmpeg_process, e_stream, e_player,
                    play_thread, cleanup_lock, pcm >>
    /\ UNCHANGED << ctl_vars, sess_vars, wrk_vars, enc_vars, obs_vars >>
    /\ UNCHANGED << test_vars, svc_vars >>

PlayAudio(e) ==
    \/ DrainTop(e)
    \/ DrainRead(e)
    \/ DrainCheck(e)
    \/ DrainDevice(e)
    \/ DrainCount(e)

\* ------------------------------------- RealtimeMp3Player driven on its own
\* The public methods of a player called by a client: start(), stop() and
\* reset() by one thread, write() by a second one, with the player's
\* play_audio thread running beside them.  start(), stop() and reset() are
\* one step each: start() and reset() run wholly under _cleanup_lock, and
\* the other threads are taken not to run inside a stop() (its join then
\* ends by its timeout).

\* start(), lines 53-78.  On a player that is not stopped a PyAudio instance,
\* a stream and an ffmpeg process are created and assigned, whatever the
\* fields hold; a field whose constructor raises keeps its value.
EngineStart(e) ==
    /\ api_calls < MaxCalls
    /\ cleanup_lock[e] = "free"
    /\ api_calls' = api_calls + 1
    /\ IF StartSkipped(e)
          THEN UNCHANGED << e_player, e_stream, ffmpeg_process, acquired >>
          ELSE \E outcome \in StartOutcomes :
               /\ acquired' = [acquired EXCEPT ![e] = Acquire(@, outcome)]
               /\ e_player' = [e_player EXCEPT ![e] = TRUE]
               /\ e_stream' = [e_stream EXCEPT ![e] =
                                  IF outcome # "no_device" THEN TRUE ELSE @]
               /\ ffmpeg_process' = [ffmpeg_process EXCEPT ![e] =
                                        IF outcome = "ok" THEN "running" ELSE @]
    /\ UNCHANGED << e_is_stopped, e_stop_event, play_thread, audio_buffer_size,
                    cleanup_lock, pcm, d_pc, d_chunk >>
    /\ UNCHANGED << dev_writes, late_write, cancel_recv, cancel_after_data,
                    teardowns, sess_teardowns, stopped_by, quiet_stop, wrote >>
    /\ UNCHANGED << ctl_vars, sess_vars, wrk_vars, enc_vars >>
    /\ UNCHANGED << test_vars, svc_vars >>

\* reset(), lines 40-51: under _cleanup_lock every field is set back to its
\* initial value: stop_event is a new Event and _is_stopped is False.  The
\* process, the stream and the thread the fields referred to are left as
\* they are.
EngineReset(e) ==
    /\ api_calls < MaxCalls
    /\ cleanup_lock[e] = "free"
    /\ api_calls' = api_calls + 1
    /\ ffmpeg_process' = [ffmpeg_process EXCEPT ![e] = "none"]
    /\ e_stream' = [e_stream EXCEPT ![e] = FALSE]
    /\ e_player' = [e_player EXCEPT ![e] = FALSE]
    /\ play_thread' = [play_thread EXCEPT ![e] = FALSE]
    /\ e_stop_event' = [e_stop_event EXCEPT ![e] = FALSE]
    /\ e_is_stopped' = [e_is_stopped EXCEPT ![e] = FALSE]
    /\ audio_buffer_size' = [audio_buffer_size EXCEPT ![e] = 0]
    /\ UNCHANGED << cleanup_lock, pcm, d_pc, d_chunk >>
    /\ UNCHANGED << dev_writes, late_write, cancel_recv, cancel_after_data,
                    teardowns, sess_teardowns, stopped_by, quiet_stop, wrote,
                    acquired >>
    /\ UNCHANGED << ctl_vars, sess_vars, wrk_vars, enc_vars >>
    /\ UNCHANGED << test_vars, svc_vars >>

\* stop(), lines 80-141, as one step: under _cleanup_lock return when
\* _is_stopped; else set _is_stopped and stop_event, join the thread
\* (play_thread = None when it was alive), end ffmpeg, close the stream and
\* the PyAudio instance.
EngineStop(e) ==
    /\ api_calls < MaxCalls
    /\ cleanup_lock[e] = "free"
    /\ api_calls' = api_calls + 1
    /\ IF TeardownGuard(e)
          THEN /\ e_is_stopped' = [e_is_stopped EXCEPT ![e] = TRUE]
               /\ e_stop_event' = [e_stop_event EXCEPT ![e] = TRUE]
               /\ play_thread' = [play_thread EXCEPT ![e] =
                                     IF @ /\ DrainAlive(e) THEN FALSE ELSE @]
               /\ ffmpeg_process' = [ffmpeg_process EXCEPT ![e] = "none"]
               /\ e_stream' = [e_stream EXCEPT ![e] = FALSE]
               /\ e_player' = [e_player EXCEPT ![e] = FALSE]
               /\ teardowns' = [teardowns EXCEPT
                     ![e].calls = @ + 1,
                     ![e].td = @ + 1,
                     ![e].ffmpeg = IF ffmpeg_process[e] # "none" THEN @ + 1 ELSE @,
                     ![e].stream = IF e_stream[e] THEN @ + 1 ELSE @,
                     ![e].pa = IF e_player[e] THEN @ + 1 ELSE @]
               /\ stopped_by' = [stopped_by EXCEPT ![e] = "stop"]
               /\ quiet_stop' = [quiet_stop EXCEPT ![e] = (\A c \in Sessions : cb_eng[c] # e)]
          ELSE /\ teardowns' = [teardowns EXCEPT ![e].calls = @ + 1]
               /\ UNCHANGED << e_is_stopped, e_stop_event, play_thread,
                               ffmpeg_process, e_stream, e_player, stopped_by,
                               quiet_stop >>
    /\ UNCHANGED << audio_buffer_size, cleanup_lock, pcm, d_pc, d_chunk >>
    /\ UNCHANGED << dev_writes, late_write, cancel_recv, cancel_after_data,
                    sess_teardowns, wrote, acquired >>
    /\ UNCHANGED << ctl_vars, sess_vars, wrk_vars, enc_vars >>
    /\ UNCHANGED << test_vars, svc_vars >>

\* The ffmpeg process of a player ends by itself (it fails on its input, or
\* is killed from outside): ffmpeg_process still refers to it and poll() no
\* longer returns None.  What it had decoded stays in its stdout pipe.
FfmpegExits(e) ==
    /\ ffmpeg_process[e] = "running"
    /\ ffmpeg_process' = [ffmpeg_process EXCEPT ![e] = "exited"]
    /\ UNCHANGED << e_is_stopped, e_stop_event, e_stream, e_player, play_thread,
                    audio_buffer_size, cleanup_lock, pcm, d_pc, d_chunk >>
    /\ UNCHANGED << ctl_vars, sess_vars, wrk_vars, enc_vars, obs_vars >>
    /\ UNCHANGED << test_vars, svc_vars >>

\* A thread of the client calls write(), line 190; the call then goes through
\* the steps of write() (WriteCheck to WriteThread) beside the other calls.
EngineCallWrite(e) ==
    /\ api_calls < MaxCalls
    /\ cb_pc[e] = "idle"
    /\ api_calls' = api_calls + 1
    /\ cb_pc' = [cb_pc EXCEPT ![e] = "w_chk"]
    /\ cb_eng' = [cb_eng EXCEPT ![e] = e]
    /\ UNCHANGED << enc_recv, enc_finish, enc_emitted, enc_term >>
    /\ UNCHANGED << dev_writes, late_write, cancel_recv, cancel_after_data,
                    teardowns, sess_teardowns, stopped_by, quiet_stop, wrote,
                    acquired >>
    /\ UNCHANGED << ctl_vars, sess_vars, wrk_vars, eng_vars >>
    /\ UNCHANGED << test_vars, svc_vars >>

\* ------------------------------------------------- src/test.py, the server
\* test.py declares its handlers with def, so each request runs on a thread
\* of the server's pool and handlers interleave statement by statement.
\* Every read of the global current_session is a step of its own.  A session
\* of test.py is modelled by its fields; its player and synthesizer by
\* whether the field is set.

\* A handler of test.py leaves through its except clause: the with block
\* releases state_lock when the thread holds it; the answer is a 500.
TFail(r) ==
    /\ t_pc' = [t_pc EXCEPT ![r] = "idle"]
    /\ t_self' = [t_self EXCEPT ![r] = None]
    /\ t_resp' = [t_resp EXCEPT ![r] = "error"]
    /\ t_state_lock' = IF t_state_lock = r THEN None ELSE t_state_lock

\* test.py start_speech, lines 160-163: take state_lock.
TStartSpeech(r) ==
    /\ t_pc[r] = "idle"
    /\ t_n < MaxSessions
    /\ t_state_lock = None
    /\ t_state_lock' = r
    /\ t_pc' = [t_pc EXCEPT ![r] = "s_if"]
    /\ t_op' = [t_op EXCEPT ![r] = "start_speech"]
    /\ UNCHANGED << t_current, t_counter, t_n, t_self, t_resp >>
    /\ UNCHANGED t_sess_vars
    /\ UNCHANGED << sever_vars, svc_vars >>

\* test.py start_speech, line 164: if current_session.
TStartIf(r) ==
    /\ t_pc[r] = "s_if"
    /\ t_pc' = [t_pc EXCEPT ![r] = IF t_current # None THEN "s_stop" ELSE "s_new"]
    /\ UNCHANGED << t_current, t_counter, t_n, t_state_lock, t_op, t_self, t_resp >>
    /\ UNCHANGED t_sess_vars
    /\ UNCHANGED << sever_vars, svc_vars >>

\* test.py lines 165-166 and 204: current_session.stop(): the global is read
\* again; on None the attribute access raises.
TCallStop(r) ==
    /\ t_pc[r] \in {"s_stop", "p_stop"}
    /\ IF t_current = None
          THEN TFail(r) /\ UNCHANGED t_op
          ELSE /\ t_self' = [t_self EXCEPT ![r] = t_current]
               /\ t_pc' = [t_pc EXCEPT ![r] = "st_chk"]
               /\ UNCHANGED << t_state_lock, t_op, t_resp >>
    /\ UNCHANGED << t_current, t_counter, t_n >>
    /\ UNCHANGED t_sess_vars
    /\ UNCHANGED << sever_vars, svc_vars >>

\* test.py SpeechSession.stop, lines 47-48: if self.is_stopped: return.  There
\* is no lock around the test and the assignment that follows.
TSessionStopCheck(r) ==
    /\ t_pc[r] = "st_chk"
    /\ t_pc' = [t_pc EXCEPT ![r] =
                   IF t_is_stopped[t_self[r]] THEN "st_ret" ELSE "st_set"]
    /\ UNCHANGED << t_current, t_counter, t_n, t_state_lock, t_op, t_self, t_resp >>
    /\ UNCHANGED t_sess_vars
    /\ UNCHANGED << sever_vars, svc_vars >>

\* test.py SpeechSession.stop, line 49: self.is_stopped = True.
TSessionStopSet(r) ==
    /\ t_pc[r] = "st_set"
    /\ t_is_stopped' = [t_is_stopped EXCEPT ![t_self[r]] = TRUE]
    /\ t_stop_bodies' = [t_stop_bodies EXCEPT ![t_self[r]] = @ + 1]
    /\ t_pc' = [t_pc EXCEPT ![r] = "st_sig"]
    /\ UNCHANGED << t_current, t_counter, t_n, t_state_lock, t_op, t_self, t_resp >>
    /\ UNCHANGED << t_session_id, t_stop_event, t_player, t_synthesizer,
                    t_launched, t_w_pc >>
    /\ UNCHANGED << sever_vars, svc_vars >>

\* test.py SpeechSession.stop, lines 53-69: stop_event.set(); if self.player:
\* force_stop(), self.player = None; self.synthesizer = None.
TSessionStopSignal(r) ==
    /\ t_pc[r] = "st_sig"
    /\ t_stop_event' = [t_stop_event EXCEPT ![t_self[r]] = TRUE]
    /\ t_player' = [t_player EXCEPT ![t_self[r]] = FALSE]
    /\ t_synthesizer' = [t_synthesizer EXCEPT ![t_self[r]] = FALSE]
    /\ t_pc' = [t_pc EXCEPT ![r] = "st_ret"]
    /\ UNCHANGED << t_current, t_counter, t_n, t_state_lock, t_op, t_self, t_resp >>
    /\ UNCHANGED << t_session_id, t_is_stopped, t_launched, t_w_pc, t_stop_bodies >>
    /\ UNCHANGED << sever_vars, svc_vars >>

\* stop() returns to its caller.  test.py lines 167-168 and 205-206: the
\* global is read again for current_session.thread; on None the access
\* raises.  join(timeout=0.5) returns when the worker has ended or by its
\* timeout.
TAfterStop(r) ==
    /\ t_pc[r] = "st_ret"
    /\ IF t_current = None
          THEN TFail(r)
          ELSE /\ t_pc' = [t_pc EXCEPT ![r] =
                              IF t_op[r] = "start_speech" THEN "s_clear" ELSE "p_clear"]
               /\ t_self' = [t_self EXCEPT ![r] = None]
               /\ UNCHANGED << t_state_lock, t_resp >>
    /\ UNCHANGED << t_current, t_counter, t_n, t_op >>
    /\ UNCHANGED t_sess_vars
    /\ UNCHANGED << sever_vars, svc_vars >>

\* test.py start_speech, line 169: current_session = None.
TStartClear(r) ==
    /\ t_pc[r] = "s_clear"
    /\ t_current' = None
    /\ t_pc' = [t_pc EXCEPT ![r] = "s_new"]
    /\ UNCHANGED << t_counter, t_n, t_state_lock, t_op, t_self, t_resp >>
    /\ UNCHANGED t_sess_vars
    /\ UNCHANGED << sever_vars, svc_vars >>

\* test.py start_speech, lines 171-176: session_id = get_next_session_id();
\* current_session = SpeechSession(session_id, query.data).
TStartNew(r) ==
    /\ t_pc[r] = "s_new"
    /\ LET s == t_n + 1
           id == GetNextSessionId(t_counter) IN
       /\ t_counter' = id
       /\ t_n' = s
       /\ t_session_id' = [t_session_id EXCEPT ![s] = id]
       /\ t_current' = s
    /\ t_pc' = [t_pc EXCEPT ![r] = "s_thread"]
    /\ UNCHANGED << t_state_lock, t_op, t_self, t_resp >>
    /\ UNCHANGED << t_is_stopped, t_stop_event, t_player, t_synthesizer,
                    t_launched, t_w_pc, t_stop_bodies >>
    /\ UNCHANGED << sever_vars, svc_vars >>

\* test.py start_speech, lines 178-182: current_session.thread = Thread(...)
\* reads the global; on None the access raises.
TStartThread(r) ==
    /\ t_pc[r] = "s_thread"
    /\ IF t_current = None
          THEN TFail(r)
          ELSE /\ t_pc' = [t_pc EXCEPT ![r] = "s_launch"]
               /\ UNCHANGED << t_state_lock, t_self, t_resp >>
    /\ UNCHANGED << t_current, t_counter, t_n, t_op >>
    /\ UNCHANGED t_sess_vars
    /\ UNCHANGED << sever_vars, svc_vars >>

\* test.py start_speech, lines 183-189: current_session.thread.start() reads
\* the global; on None the access raises, else the worker is launched, the
\* with block releases state_lock and the handler answers "started".
TStartLaunch(r) ==
    /\ t_pc[r] = "s_launch"
    /\ IF t_current = None
          THEN TFail(r) /\ UNCHANGED << t_launched, t_w_pc >>
          ELSE /\ t_launched' = [t_launched EXCEPT ![t_current] = TRUE]
               /\ t_w_pc' = [t_w_pc EXCEPT ![t_current] = "init"]
               /\ t_pc' = [t_pc EXCEPT ![r] = "idle"]
               /\ t_resp' = [t_resp EXCEPT ![r] = "started"]
               /\ t_state_lock' = None
               /\ UNCHANGED t_self
    /\ UNCHANGED << t_current, t_counter, t_n, t_op >>
    /\ UNCHANGED << t_session_id, t_is_stopped, t_stop_event, t_player,
                    t_synthesizer, t_stop_bodies >>
    /\ UNCHANGED << sever_vars, svc_vars >>

\* test.py stop_speech, lines 199-203 and 208-212: no lock is taken; if
\* current_session, go on to its stop(), else answer "stopped".
TStopSpeech(r) ==
    /\ t_pc[r] = "idle"
    /\ t_op' = [t_op EXCEPT ![r] = "stop_speech"]
    /\ IF t_current # None
          THEN /\ t_pc' = [t_pc EXCEPT ![r] = "p_stop"]
               /\ UNCHANGED t_resp
          ELSE /\ t_resp' = [t_resp EXCEPT ![r] = "stopped"]
               /\ UNCHANGED t_pc
    /\ UNCHANGED << t_current, t_counter, t_n, t_state_lock, t_self >>
    /\ UNCHANGED t_sess_vars
    /\ UNCHANGED << sever_vars, svc_vars >>

\* test.py stop_speech, lines 207 and 211-212: current_session = None, then
\* the answer "stopped".
TStopClear(r) ==
    /\ t_pc[r] = "p_clear"
    /\ t_current' = None
    /\ t_pc' = [t_pc EXCEPT ![r] = "idle"]
    /\ t_resp' = [t_resp EXCEPT ![r] = "stopped"]
    /\ UNCHANGED << t_counter, t_n, t_state_lock, t_op, t_self >>
    /\ UNCHANGED t_sess_vars
    /\ UNCHANGED << sever_vars, svc_vars >>

\* test.py run_speech, lines 77-79: if session.stop_event.is_set(): return.
TWorkerInit(s) ==
    /\ t_w_pc[s] = "init"
    /\ t_w_pc' = [t_w_pc EXCEPT ![s] = IF t_stop_event[s] THEN "fin" ELSE "mk"]
    /\ UNCHANGED << t_session_id, t_is_stopped, t_stop_event, t_player,
                    t_synthesizer, t_launched, t_stop_bodies >>
    /\ UNCHANGED t_ctl_vars
    /\ UNCHANGED << sever_vars, svc_vars >>

\* test.py run_speech, lines 82-115: session.player = RealtimeMp3Player(),
\* start(), session.synthesizer = SpeechSynthesizer(...).
TWorkerSetup(s) ==
    /\ t_w_pc[s] = "mk"
    /\ t_player' = [t_player EXCEPT ![s] = TRUE]
    /\ t_synthesizer' = [t_synthesizer EXCEPT ![s] = TRUE]
    /\ t_w_pc' = [t_w_pc EXCEPT ![s] = "fin"]
    /\ UNCHANGED << t_session_id, t_is_stopped, t_stop_event, t_launched,
                    t_stop_bodies >>
    /\ UNCHANGED t_ctl_vars
    /\ UNCHANGED << sever_vars, svc_vars >>

\* test.py run_speech, lines 119-145: the submission loop, then the finally
\* block (player.stop() when session.player is set); the thread ends.  None
\* of it writes a field of the session.
TWorkerFinish(s) ==
    /\ t_w_pc[s] = "fin"
    /\ t_w_pc' = [t_w_pc EXCEPT ![s] = "end"]
    /\ UNCHANGED << t_session_id, t_is_stopped, t_stop_event, t_player,
                    t_synthesizer, t_launched, t_stop_bodies >>
    /\ UNCHANGED t_ctl_vars
    /\ UNCHANGED << sever_vars, svc_vars >>

TestHandler(r) ==
    \/ TStartSpeech(r)
    \/ TStartIf(r)
    \/ TCallStop(r)
    \/ TSessionStopCheck(r)
    \/ TSessionStopSet(r)
    \/ TSessionStopSignal(r)
    \/ TAfterStop(r)
    \/ TStartClear(r)
    \/ TStartNew(r)
    \/ TStartThread(r)
    \/ TStartLaunch(r)
    \/ TStopSpeech(r)
    \/ TStopClear(r)

TestWorker(s) ==
    \/ TWorkerInit(s)
    \/ TWorkerSetup(s)
    \/ TWorkerFinish(s)

\* --------------------------------- src/complete_sentence.py, TTSService
\* The handlers of complete_sentence.py are async def and call the
\* synchronous start() and stop() of the one TTSService object, so a call of
\* start() or stop() runs without another handler in between; the synthesis
\* workers run on threads of their own.  A section under _lock is one step.
\* A worker is named by its launch index k; the fields websocket, player and
\* stream of the service hold the index of the worker that assigned them.

\* Thread.is_alive() of the thread of worker k.
SvcAlive(k) == sv_pc[k] \notin {"none", "dead"}

\* start() without the test of line 243.
SvcStartNeverRejected == FALSE

\* start(), line 243: the call is rejected when the state is RUNNING.
SvcStartRejected == svc_state = "running"

\* start(), lines 242-247: under _lock, raise HTTPException when the state is
\* RUNNING, else state = RUNNING and _stop_event.clear().
SvcStart ==
    /\ svc_h = "idle"
    /\ IF SvcStartRejected
          THEN /\ svc_resp' = "rejected"
               /\ UNCHANGED << svc_state, svc_stop_event, svc_h >>
          ELSE /\ svc_thread < MaxWorkers
               /\ svc_state' = "running"
               /\ svc_stop_event' = FALSE
               /\ svc_h' = "launch"
               /\ UNCHANGED svc_resp
    /\ UNCHANGED << svc_websocket, svc_player, svc_stream, svc_thread, sv_pc,
                    sv_sent, sv_played, sv_len, sv_stopped >>
    /\ UNCHANGED << sever_vars, test_vars >>

\* start(), lines 250-255: synthesis_thread = Thread(...), start(); the
\* worker gets the text segments of the request.
SvcStartLaunch ==
    /\ svc_h = "launch"
    /\ LET k == svc_thread + 1 IN
       /\ svc_thread' = k
       /\ sv_pc' = [sv_pc EXCEPT ![k] = "connect"]
       /\ \E n \in 1..MaxSegments : sv_len' = [sv_len EXCEPT ![k] = n]
    /\ svc_h' = "idle"
    /\ svc_resp' = "success"
    /\ UNCHANGED << svc_state, svc_stop_event, svc_websocket, svc_player,
                    svc_stream, sv_sent, sv_played, sv_stopped >>
    /\ UNCHANGED << sever_vars, test_vars >>

\* stop(), lines 259-282: under _lock, raise HTTPException unless the state
\* is RUNNING; else state = STOPPED, _stop_event.set(), the stream is closed
\* and the PyAudio instance terminated, whoever opened them.
SvcStop ==
    /\ svc_h = "idle"
    /\ IF svc_state # "running"
          THEN /\ svc_resp' = "rejected"
               /\ UNCHANGED << svc_state, svc_stop_event, svc_stream, svc_player,
                               svc_h, sv_stopped >>
          ELSE /\ svc_state' = "stopped"
               /\ svc_stop_event' = TRUE
               /\ svc_stream' = None
               /\ svc_player' = None
               /\ svc_h' = "reset"
               /\ sv_stopped' = [k \in Workers |-> sv_stopped[k] \/ SvcAlive(k)]
               /\ UNCHANGED svc_resp
    /\ UNCHANGED << svc_websocket, svc_thread, sv_pc, sv_sent, sv_played, sv_len >>
    /\ UNCHANGED << sever_vars, test_vars >>

\* stop(), lines 286-288: under _lock, state = IDLE; stop() returns without
\* waiting for the worker.
SvcStopReset ==
    /\ svc_h = "reset"
    /\ svc_state' = "idle"
    /\ svc_h' = "idle"
    /\ svc_resp' = "success"
    /\ UNCHANGED << svc_stop_event, svc_websocket, svc_player, svc_stream,
                    svc_thread, sv_pc, sv_sent, sv_played, sv_len, sv_stopped >>
    /\ UNCHANGED << sever_vars, test_vars >>

\* _synthesis_worker, lines 55-56: websockets.connect, self.websocket =
\* websocket; when the connection fails the exception leads to the finally
\* block.
SvcConnect(k) ==
    /\ sv_pc[k] = "connect"
    /\ \/ /\ svc_websocket' = k
          /\ sv_pc' = [sv_pc EXCEPT ![k] = "open"]
       \/ /\ sv_pc' = [sv_pc EXCEPT ![k] = "c_stream"]
          /\ UNCHANGED svc_websocket
    /\ UNCHANGED << svc_state, svc_stop_event, svc_player, svc_stream, svc_thread,
                    svc_h, svc_resp, sv_sent, sv_played, sv_len, sv_stopped >>
    /\ UNCHANGED << sever_vars, test_vars >>

\* _synthesis_worker, lines 59-65: self.player = pyaudio.PyAudio();
\* self.stream = self.player.open(...); when the device cannot be opened the
\* exception leads to the finally block with self.player set.
SvcOpenAudio(k) ==
    /\ sv_pc[k] = "open"
    /\ svc_player' = k
    /\ \/ /\ svc_stream' = k
          /\ sv_pc' = [sv_pc EXCEPT ![k] = "started"]
       \/ /\ sv_pc' = [sv_pc EXCEPT ![k] = "c_stream"]
          /\ UNCHANGED svc_stream
    /\ UNCHANGED << svc_state, svc_stop_event, svc_websocket, svc_thread, svc_h,
                    svc_resp, sv_sent, sv_played, sv_len, sv_stopped >>
    /\ UNCHANGED << sever_vars, test_vars >>

\* _synthesis_worker, lines 97-116: send run-task, then wait for the
\* task-started event while _stop_event is not set (a round of the loop that
\* times out leaves the state as it is); with _stop_event set, return.
SvcWaitStarted(k) ==
    /\ sv_pc[k] = "started"
    /\ sv_pc' = [sv_pc EXCEPT ![k] = IF svc_stop_event THEN "c_stream" ELSE "send"]
    /\ UNCHANGED << svc_state, svc_stop_event, svc_websocket, svc_player,
                    svc_stream, svc_thread, svc_h, svc_resp, sv_sent, sv_played,
                    sv_len, sv_stopped >>
    /\ UNCHANGED << sever_vars, test_vars >>

\* _synthesis_worker, lines 155-182: for each text segment, break if
\* _stop_event is set, else send it.
SvcSend(k) ==
    /\ sv_pc[k] = "send"
    /\ IF svc_stop_event \/ sv_sent[k] = sv_len[k]
          THEN /\ sv_pc' = [sv_pc EXCEPT ![k] = "finish"]
               /\ UNCHANGED sv_sent
          ELSE /\ sv_sent' = [sv_sent EXCEPT ![k] = @ + 1]
               /\ UNCHANGED sv_pc
    /\ UNCHANGED << svc_state, svc_stop_event, svc_websocket, svc_player,
                    svc_stream, svc_thread, svc_h, svc_resp, sv_played, sv_len, sv_stopped >>
    /\ UNCHANGED << sever_vars, test_vars >>

\* _synthesis_worker, lines 186-204: unless _stop_event is set, send
\* finish-task and await the receive task; else cancel the receive task.
SvcFinish(k) ==
    /\ sv_pc[k] = "finish"
    /\ sv_pc' = [sv_pc EXCEPT ![k] = IF svc_stop_event THEN "c_stream" ELSE "recv"]
    /\ UNCHANGED << svc_state, svc_stop_event, svc_websocket, svc_player,
                    svc_stream, svc_thread, svc_h, svc_resp, sv_sent, sv_played,
                    sv_len, sv_stopped >>
    /\ UNCHANGED << sever_vars, test_vars >>

\* receive_audio, lines 121-128, the task created at line 152: a binary
\* message is written to self.stream if _stop_event is not set and
\* self.stream is set, whichever worker opened that stream.
SvcPlay(k) ==
    /\ sv_pc[k] \in {"send", "finish", "recv"}
    /\ sv_played[k] < MaxChunks
    /\ ~svc_stop_event
    /\ svc_stream # None
    /\ sv_played' = [sv_played EXCEPT ![k] = @ + 1]
    /\ UNCHANGED << svc_state, svc_stop_event, svc_websocket, svc_player,
                    svc_stream, svc_thread, svc_h, svc_resp, sv_pc, sv_sent, sv_len, sv_stopped >>
    /\ UNCHANGED << sever_vars, test_vars >>

\* _synthesis_worker, line 201: the receive task ends (task-finished,
\* task-failed, an error, or _stop_event set) and the worker goes on to its
\* finally block.
SvcReceiveDone(k) ==
    /\ sv_pc[k] = "recv"
    /\ sv_pc' = [sv_pc EXCEPT ![k] = "c_stream"]
    /\ UNCHANGED << svc_state, svc_stop_event, svc_websocket, svc_player,
                    svc_stream, svc_thread, svc_h, svc_resp, sv_sent, sv_played,
                    sv_len, sv_stopped >>
    /\ UNCHANGED << sever_vars, test_vars >>

\* finally, lines 210-216: if self.stream: close it, self.stream = None.
SvcCleanStream(k) ==
    /\ sv_pc[k] = "c_stream"
    /\ svc_stream' = None
    /\ sv_pc' = [sv_pc EXCEPT ![k] = "c_player"]
    /\ UNCHANGED << svc_state, svc_stop_event, svc_websocket, svc_player,
                    svc_thread, svc_h, svc_resp, sv_sent, sv_played, sv_len, sv_stopped >>
    /\ UNCHANGED << sever_vars, test_vars >>

\* finally, lines 218-223: if self.player: terminate it, self.player = None.
SvcCleanPlayer(k) ==
    /\ sv_pc[k] = "c_player"
    /\ svc_player' = None
    /\ sv_pc' = [sv_pc EXCEPT ![k] = "c_ws"]
    /\ UNCHANGED << svc_state, svc_stop_event, svc_websocket, svc_stream,
                    svc_thread, svc_h, svc_resp, sv_sent, sv_played, sv_len, sv_stopped >>
    /\ UNCHANGED << sever_vars, test_vars >>

\* finally, lines 225-230: if self.websocket: close it, self.websocket = None.
SvcCleanWebsocket(k) ==
    /\ sv_pc[k] = "c_ws"
    /\ svc_websocket' = None
    /\ sv_pc' = [sv_pc EXCEPT ![k] = "c_state"]
    /\ UNCHANGED << svc_state, svc_stop_event, svc_player, svc_stream,
                    svc_thread, svc_h, svc_resp, sv_sent, sv_played, sv_len, sv_stopped >>
    /\ UNCHANGED << sever_vars, test_vars >>

\* finally, lines 232-234: under _lock, state = IDLE; the thread ends.
SvcSetIdle(k) ==
    /\ sv_pc[k] = "c_state"
    /\ svc_state' = "idle"
    /\ sv_pc' = [sv_pc EXCEPT ![k] = "dead"]
    /\ UNCHANGED << svc_stop_event, svc_websocket, svc_player, svc_stream,
                    svc_thread, svc_h, svc_resp, sv_sent, sv_played, sv_len, sv_stopped >>
    /\ UNCHANGED << sever_vars, test_vars >>

SvcHandler ==
    \/ SvcStart
    \/ SvcStartLaunch
    \/ SvcStop
    \/ SvcStopReset

SvcWorker(k) ==
    \/ SvcConnect(k)
    \/ SvcOpenAudio(k)
    \/ SvcWaitStarted(k)
    \/ SvcSend(k)
    \/ SvcFinish(k)
    \/ SvcPlay(k)
    \/ SvcReceiveDone(k)
    \/ SvcCleanStream(k)
    \/ SvcCleanPlayer(k)
    \/ SvcCleanWebsocket(k)
    \/ SvcSetIdle(k)

\* --------------------------------------------------------- specification
Threads ==
    \/ \E s \in Sessions : Worker(s)
    \/ \E s \in Sessions : Encoder(s)
    \/ \E e \in Sessions : PlayAudio(e)

\* The whole server: any requests, up to MaxSessions sessions.
Next ==
    \/ \E texts \in Requests : StartSpeech(MaxSessions, texts)
    \/ StopSpeech
    \/ HandlerStep
    \/ Threads

Spec == Init /\ [][Next]_vars

\* One utterance: a single start_speech request, then any stop_speech
\* requests.
NextSolo ==
    \/ \E texts \in Requests : StartSpeech(1, texts)
    \/ StopSpeech
    \/ HandlerStep
    \/ Threads

SpecSolo == Init /\ [][NextSolo]_vars

\* An utterance interrupted by a second one: start_speech followed by a
\* second start_speech, which stops the first session, and no stop_speech
\* request.
NextPair ==
    \/ \E texts \in PairRequests : StartSpeech(2, texts)
    \/ HandlerStep
    \/ Threads

SpecPair == Init /\ [][NextPair]_vars

\* Scheduling: a handler that can take a step is eventually run by the event
\* loop, and a worker thread that can take a step eventually takes it.  An
\* iteration of the polling loop that finds the player still playing leaves
\* the state as it is, so that the loop is left in the end, as its 20 s
\* deadline makes it.  Nothing is assumed of the encoder or of play_audio.
Fairness ==
    /\ WF_vars(HandlerStep)
    /\ \A s \in Sessions : WF_vars(Worker(s))

SpecSoloFair == SpecSolo /\ Fairness

SpecPairFair == SpecPair /\ Fairness

\* A player on its own: a client calls its methods in any order, at most
\* MaxCalls times, while the play_audio threads run and ffmpeg may end.
NextEngine ==
    \E e \in Sessions :
        \/ EngineStart(e)
        \/ EngineStop(e)
        \/ EngineReset(e)
        \/ EngineCallWrite(e)
        \/ FfmpegExits(e)
        \/ WriteCheck(e)
        \/ WriteFeed(e)
        \/ WriteCount(e)
        \/ WriteThread(e)
        \/ PlayAudio(e)

SpecEngine == Init /\ [][NextEngine]_vars

\* The service of complete_sentence.py: start() and stop() requests in any
\* order and the workers they launch.
NextService ==
    \/ SvcHandler
    \/ \E k \in Workers : SvcWorker(k)

SpecService == Init /\ [][NextService]_vars

\* The event loop of sever.py alone, for up to MaxSessions sessions: the
\* worker threads are created and not scheduled.  No step of a worker, an
\* encoder or a play_audio thread writes a controller variable, is_stopped
\* or session_id.
NextController ==
    \/ \E texts \in Requests : StartSpeech(MaxSessions, texts)
    \/ StopSpeech
    \/ SessionStopEnter
    \/ SessionStopClear
    \/ JoinAndClear
    \/ NewSession

SpecController == Init /\ [][NextController]_vars

\* The server of test.py: PoolSize request threads and up to MaxSessions
\* sessions.
NextTest ==
    \/ \E r \in Pool : TestHandler(r)
    \/ \E s \in Sessions : TestWorker(s)

SpecTest == Init /\ [][NextTest]_vars

\* ------------------------------------------------------------ properties
\* A player that is started and not stopped: start() has opened the output
\* device and no teardown has begun.
StartedNotStopped(e) == e_stream[e] /\ ~e_is_stopped[e]

\* C1: no reachable state has two engines that are both started and not
\* stopped; the engine of the first session is stopped before the engine of
\* the second session acquires the device.
C1_Exclusivity ==
    \A a \in Sessions : \A b \in Sessions :
        a # b => ~(StartedNotStopped(a) /\ StartedNotStopped(b))

\* C2: at every instant at most one session whose worker has been launched
\* has is_stopped false (test.py, whose stop_speech takes no lock).
C2_OneLiveSession ==
    Cardinality({ s \in Sessions : t_launched[s] /\ ~t_is_stopped[s] }) <= 1

\* The same statement for sever.py, whose handlers the event loop runs one
\* at a time.
SeverOneLiveSession ==
    Cardinality({ s \in 1..nSessions : ~is_stopped[s] }) <= 1

\* C3: once a session's stop_event is set no device write happens for that
\* session.
C3_NoWriteAfterCancel == \A e \in Sessions : ~late_write[e]

\* C4: when SpeechSession.stop is called before anything was submitted to
\* the encoder (nothing had been submitted when stop() set stop_event), no
\* chunk is ever written to the output device for that session.
C4_CancelBeforeSubmit ==
    \A s \in Sessions : cancel_recv[s] = 0 => dev_writes[s] = 0

\* A session cancelled before any submission whose worker submitted a
\* fragment all the same, and whose encoder delivered a frame that on_data has
\* finished with.
C4_Witness ==
    \E s \in Sessions :
        /\ cancel_recv[s] = 0
        /\ Len(enc_recv[s]) > 0
        /\ enc_emitted[s] > 0
        /\ cb_pc[s] = "idle"
        /\ dev_writes[s] = 0

C6_BufferNonNegative == \A e \in Sessions : audio_buffer_size[e] >= 0

\* play_audio has taken a chunk of ChunkBytes bytes off the counter of a
\* running player that held one frame of FrameLen bytes: the chunk was larger
\* than the counter.
C6_Witness ==
    \E e \in Sessions :
        /\ ChunkBytes > FrameLen * enc_emitted[e]
        /\ dev_writes[e] > 0
        /\ d_pc[e] = "top"
        /\ stopped_by[e] = "none"
        /\ audio_buffer_size[e] = 0

\* C7: the on_data of a session calls write() only on the player of that
\* session.
C7_CallbackIsolation == \A s \in Sessions : wrote[s] \subseteq {s}

\* The second session's on_data has called write() on its own player while
\* the first session is stopped, its worker still runs and its player still
\* has the device open.
C7_Witness ==
    \E a \in Sessions : \E b \in Sessions :
        /\ a # b
        /\ is_stopped[a]
        /\ ThreadAlive(a)
        /\ e_stream[a]
        /\ wrote[b] = {b}

\* C8: session ids strictly increase in the order of creation and no id is
\* above the counter, so that no later id repeats one; the current session,
\* whose id get_status reports, holds the latest id.
C8_MonotonicIds ==
    /\ \A a \in 1..nSessions : \A b \in 1..nSessions :
          a < b => session_id[a] < session_id[b]
    /\ \A a \in 1..nSessions : session_id[a] <= session_counter
    /\ current_session # None => session_id[current_session] = session_counter

\* Three start_speech calls have been answered.
C8_Witness == nSessions >= 3 /\ h_resp = "started" /\ h_pc = "idle"

\* C9: after write() calls on a started player followed by stop(),
\* get_buffer_status() reports buffer_size 0 and is_stopped true.
C9_StopClearsBuffer ==
    \A e \in Sessions :
        (/\ stopped_by[e] = "stop"
         /\ quiet_stop[e]
         /\ w_pc[e] = "end"
         /\ e \in wrote[e])
        => /\ GetBufferStatus(e).buffer_size = 0
           /\ GetBufferStatus(e).is_stopped

\* C10: in a session begun with ["hi", "there"], when stop() is called after
\* the first on_data and before "there" was submitted, the encoder never
\* receives "there".
C10_SecondFragmentWithheld ==
    \A s \in Sessions :
        (/\ query_text[s] = <<"hi", "there">>
         /\ cancel_recv[s] = 1
         /\ cancel_after_data[s])
        => enc_recv[s] = <<"hi">>

\* C11: every session whose worker has ended (normally, after a start
\* failure, a submission failure, an on_error or a timeout) has is_stopped
\* true, and the body of stop() that sets it ran exactly once.
C11_EndedIsStopped ==
    \A s \in Sessions :
        w_pc[s] \in {"end", "crashed"} =>
            is_stopped[s] /\ sess_teardowns[s] = 1

\* start() of the player of session s failed: the PyAudio instance was
\* created, no ffmpeg process runs, player_started stayed False, and no
\* teardown has run on the player.
StartFailed(s) ==
    /\ e_player[s]
    /\ ffmpeg_process[s] = "none"
    /\ ~player_started[s]
    /\ stopped_by[s] = "none"

\* C12: when the output device or the decode process cannot be created for
\* a new session, start_speech answers its caller with an error and not with
\* "started".  While the session is current and the event loop is idle, the
\* last answer is the one of the start_speech that created the session.
C12_StartFailureReported ==
    \A s \in Sessions :
        (StartFailed(s) /\ current_session = s /\ h_pc = "idle")
            => h_resp # "started"

\* C13: stop_speech answers with the error "no active session" when the
\* current-session slot is empty.  Before any session was created the slot
\* is empty and only stop_speech can have answered.
C13_StopOnEmptySlotIsError ==
    (nSessions = 0 /\ h_pc = "idle" /\ h_resp # "none")
        => h_resp = "no active session"

\* C14: under fair scheduling every start_speech and stop_speech call
\* returns and every worker thread ends, whatever the encoder and the player
\* do; no handler or worker waits for a lock for ever.
C14_Termination ==
    /\ (h_pc # "idle") ~> (h_pc = "idle")
    /\ \A s \in Sessions : ThreadAlive(s) ~> ~ThreadAlive(s)

\* A worker has ended through the polling loop and stop() although its
\* encoder received text and never delivered its terminal event.
C14_Witness ==
    \E s \in Sessions :
        /\ w_pc[s] = "end"
        /\ stopped_by[s] = "stop"
        /\ Len(enc_recv[s]) > 0
        /\ ~enc_term[s]

\* C15: a stop_event that is set stays set: no step of a session, of the
\* controller or of a player (reset() included) clears or replaces the
\* stop_event of a session or of a player once it has been set.
C15_FlagOneShot ==
    [][ /\ \A s \in Sessions : stop_event[s] => stop_event'[s]
        /\ \A e \in Sessions : e_stop_event[e] => e_stop_event'[e] ]_vars

\* C16: start_speech calls are serialized by state_lock, so at most one
\* request is inside the sequence stop previous session, allocate id,
\* construct session, launch worker; and every start_speech call launches
\* exactly one worker: once no request is between the construction of a
\* session and the start of its thread, every session constructed has had
\* its worker launched.
C16_OneWorkerPerBegin ==
    /\ Cardinality({ r \in Pool : t_op[r] = "start_speech" /\ t_pc[r] # "idle" }) <= 1
    /\ (\A r \in Pool : t_pc[r] \notin {"s_thread", "s_launch"})
          => \A s \in Sessions : s <= t_n => t_launched[s]

\* C17: every step that changes current_session is taken by the request that
\* holds state_lock, so that a stop_speech cannot clear the slot while a
\* start_speech is inside its locked section.
C17_SlotWrittenUnderLock ==
    [][ t_current' # t_current =>
            /\ t_state_lock # None
            /\ t_pc'[t_state_lock] # t_pc[t_state_lock] ]_vars

\* C18: in a session that is never cancelled no frame is dropped: when the
\* player of the session has been stopped, every whole chunk of the audio
\* the encoder has emitted for the session has been written to the device.
C18_NoDroppedFrames ==
    \A s \in Sessions :
        (~stop_event[s] /\ player[s] # None /\ e_is_stopped[player[s]])
            => dev_writes[player[s]] * ChunkBytes
                   >= ((enc_emitted[s] * PcmPerFrame) \div ChunkBytes) * ChunkBytes

\* C19: start() is idempotent: a step that opens an output device or spawns
\* an ffmpeg process is taken only on a player that is neither started (its
\* stream open and its ffmpeg process running) nor stopped.
C19_StartIdempotent ==
    [][ \A e \in Sessions :
            (\/ acquired'[e].pa # acquired[e].pa
             \/ acquired'[e].stream # acquired[e].stream
             \/ acquired'[e].ffmpeg # acquired[e].ffmpeg)
                => /\ ~(e_stream[e] /\ ffmpeg_process[e] = "running")
                   /\ ~e_is_stopped[e] ]_vars

\* C20: for each player at most one play_audio thread is ever created,
\* whatever the interleaving of write() with stop() and force_stop().
C20_OneDrainThread ==
    \A e \in Sessions : acquired[e].thread <= 1

\* C21: write() on a player that is stopped or whose stop_event is set is a
\* silent no-op: the step in which write() makes its test on such a player
\* ends the call, and nothing is fed to ffmpeg, the counter is unchanged and
\* no play_audio thread is created.
C21_WriteOnStoppedIsNoOp ==
    [][ \A s \in Sessions :
            ( /\ cb_pc[s] = "w_chk"
              /\ cb_pc'[s] # "w_chk"
              /\ (e_is_stopped[cb_eng[s]] \/ e_stop_event[cb_eng[s]]) )
                => /\ cb_pc'[s] = "idle"
                   /\ pcm' = pcm
                   /\ audio_buffer_size' = audio_buffer_size
                   /\ play_thread' = play_thread
                   /\ d_pc' = d_pc
                   /\ acquired' = acquired ]_vars

\* on_data has called write() on a player that was stopped: the call is
\* over, nothing was fed and no thread was created.
C21_Witness ==
    \E s \in Sessions :
        /\ wrote[s] = {s}
        /\ cb_pc[s] = "idle"
        /\ enc_emitted[s] = MaxFrames
        /\ e_is_stopped[s]
        /\ ~stop_event[s]
        /\ pcm[s] = 0
        /\ audio_buffer_size[s] = 0
        /\ acquired[s].thread = 0

\* C22: is_playing() is true exactly when the player is not stopped and its
\* play_audio thread is alive, or its ffmpeg process is running, or its
\* stream is open, or its counter is above 0; so it is true for a player
\* that is not stopped and whose ffmpeg process has exited while the stream
\* is open or the counter is above 0.
C22_IsPlayingDefinition ==
    \A e \in Sessions :
        IsPlaying(e) =
            ( /\ ~e_is_stopped[e]
              /\ \/ play_thread[e] /\ DrainAlive(e)
                 \/ ffmpeg_process[e] = "running"
                 \/ e_stream[e]
                 \/ audio_buffer_size[e] > 0 )

\* C23: stopped is terminal for a player.  Once stop() or force_stop() has
\* set _is_stopped, the flag stays set, no step of start(), stop() or
\* force_stop() opens a device or spawns an ffmpeg process for the player, a
\* write() that makes its test afterwards ends at once, and is_playing() is
\* false.
C23_StoppedIsTerminal ==
    [][ \A e \in Sessions :
            e_is_stopped[e] =>
                /\ e_is_stopped'[e]
                /\ ~IsPlaying(e)
                /\ acquired'[e].pa = acquired[e].pa
                /\ acquired'[e].stream = acquired[e].stream
                /\ acquired'[e].ffmpeg = acquired[e].ffmpeg
                /\ \A s \in Sessions :
                      (cb_pc[s] = "w_chk" /\ cb_eng[s] = e /\ cb_pc'[s] # "w_chk")
                          => cb_pc'[s] = "idle" /\ acquired'[e] = acquired[e] ]_vars

\* start() was called on a player that force_stop() had stopped, and
\* returned: the worker went on and the player has acquired nothing.
C23_Witness ==
    \E s \in Sessions :
        /\ player_started[s]
        /\ e_is_stopped[s]
        /\ stopped_by[s] = "force_stop"
        /\ acquired[s].pa = 0
        /\ acquired[s].ffmpeg = 0

C25_NoEscapedException ==
    \A s \in Sessions : w_pc[s] # "crashed"

\* C26: when start() of the player fails in the worker, the player is
\* stopped before the worker ends, so that what start() had acquired is
\* released: a worker that has ended after a failed start() leaves a stopped
\* player.
C26_StartFailureReleases ==
    \A s \in Sessions :
        (w_pc[s] = "end" /\ acquired[s].pa > 0 /\ ~player_started[s])
            => e_is_stopped[s]

\* C27: in a session that is never cancelled and whose submission loop has
\* gone through the whole request without a failing streaming_call, the
\* encoder has received every fragment of the request once and in order,
\* whitespace-only fragments included.
C27_EveryFragmentSubmitted ==
    \A s \in Sessions :
        (w_pc[s] = "end" /\ ~stop_event[s] /\ w_i[s] > Len(query_text[s]))
            => enc_recv[s] = query_text[s]

\* C28: the latches of a session are signaled once, each by its own event:
\* synthesis_complete is set only when the encoder has delivered its terminal
\* event (on_complete or on_error), all_text_processed only when the
\* submission loop of the worker has ended.
C28_LatchesSetByTheirEvent ==
    \A s \in Sessions :
        /\ synthesis_complete[s] => enc_term[s]
        /\ all_text_processed[s] => w_pc[s] \notin {"none", "init", "mk", "start", "synth", "loop", "call"}

\* C29: no player is created or started for a session whose stop_event is
\* set: no step gives a session a player, opens a device or spawns an ffmpeg
\* process for it, once the flag of the session is set.
C29_NoEngineAfterCancel ==
    [][ \A s \in Sessions :
            stop_event[s] =>
                /\ (player[s] = None => player'[s] = None)
                /\ acquired'[s].pa = acquired[s].pa
                /\ acquired'[s].stream = acquired[s].stream
                /\ acquired'[s].ffmpeg = acquired[s].ffmpeg ]_vars

\* C30: in TTSService at most one synthesis worker is alive at any time, and
\* the state is RUNNING whenever a worker is alive.
C30_OneWorkerWhileRunning ==
    /\ Cardinality({ k \in Workers : SvcAlive(k) }) <= 1
    /\ (\E k \in Workers : SvcAlive(k)) => svc_state = "running"

\* C31: once an accepted stop() has run while a worker was alive, that
\* worker sends no further text segment and plays no further audio, whatever
\* start() does afterwards.
C31_StoppedWorkerGoesQuiet ==
    [][\A k \in Workers :
          sv_stopped[k] => /\ sv_sent'[k] = sv_sent[k]
                           /\ sv_played'[k] = sv_played[k]]_vars

\* C32: a rejected call changes nothing.  A step that answers "rejected"
\* leaves the state, _stop_event, stream, player, websocket, the threads and
\* the handler where they were; start() is never accepted while the state is
\* RUNNING and stop() is never accepted while it is not.  (A rejected call
\* after a rejected call changes no variable at all.)
C32_RejectedChangesNothing ==
    [][/\ (svc_resp' = "rejected" /\ svc_resp # "rejected")
            => UNCHANGED << svc_state, svc_stop_event, svc_stream, svc_player,
                            svc_websocket, svc_thread, svc_h, sv_pc, sv_sent,
                            sv_played >>
       /\ (svc_h = "idle" /\ svc_state = "running") => svc_h' # "launch"
       /\ (svc_h = "idle" /\ svc_state # "running") => svc_h' # "reset"]_vars

\* A start() was rejected while a worker is running.
C32_Witness ==
    /\ svc_resp = "rejected"
    /\ svc_h = "idle"
    /\ svc_state = "running"
    /\ \E k \in Workers : SvcAlive(k) /\ sv_sent[k] > 0

\* C33: the cleanup of a worker only affects its own run.  A worker in its
\* finally block closes no stream, player or websocket that a newer worker
\* opened, and does not set the state to IDLE while a newer worker is alive.
C33_CleanupOwnRunOnly ==
    [][\A k \in Workers :
          /\ (sv_pc[k] = "c_stream" /\ sv_pc'[k] = "c_player")
                => (svc_stream' # svc_stream => svc_stream <= k)
          /\ (sv_pc[k] = "c_player" /\ sv_pc'[k] = "c_ws")
                => (svc_player' # svc_player => svc_player <= k)
          /\ (sv_pc[k] = "c_ws" /\ sv_pc'[k] = "c_state")
                => (svc_websocket' # svc_websocket => svc_websocket <= k)
          /\ (sv_pc[k] = "c_state" /\ sv_pc'[k] = "dead")
                => (svc_state' = "idle" =>
                       \A j \in Workers : j > k => ~SvcAlive(j))]_vars

=============================================================================
